---- MODULE Spec2Model ----
(***************************************************************************)
(* TypedJSON: the Serializer (typed object tree -> simple JS object tree)  *)
(* and the Deserializer (simple JS object tree -> typed object tree),      *)
(* with the type-hint protocol.  A run calls the two engines with a type   *)
(* descriptor, or it calls the methods of a TypedJSON instance made for a  *)
(* root class.                                                             *)
(***************************************************************************)
EXTENDS Integers, Sequences, FiniteSets, TLC

VARIABLES
    pc,           \* "typed": a typed value awaits its conversion; "plain": a plain value awaits its conversion; "done"; "text": a stringify method returned
    settings,     \* what the Serializer and the Deserializer are set up with when the run starts (for a TypedJSON instance: its settings, as TypedJSON.config leaves them), and the known types of the run
    theSerializer,   \* the Serializer: options, typeHintEmitter, errorHandler
    theDeserializer, \* the Deserializer: options, typeResolver, nameResolver, errorHandler
    setterCalls,  \* how many setters of the engines were called
    globalConfig, \* TypedJSON._globalConfig
    rootType,     \* the type descriptor the engines are called with, or the root constructor of the TypedJSON instance
    typed,        \* the typed source value (undefined when the run starts from a plain value)
    plain,        \* what the conversion of the typed value returned (or the plain value the run starts from)
    revived,      \* what the conversion of the plain value returned
    text,         \* what the stringify method returned
    calls         \* the converting methods called so far, each with the error handler and the engine it ran under

vars == <<pc, settings, theSerializer, theDeserializer, setterCalls, globalConfig, rootType, typed, plain, revived, text, calls>>

----------------------------------------------------------------------------
(* Bounds of the model. *)

\* Longest array, set or map drawn as an input.
MaxLen == 2
\* Numbers drawn as member values are 0..MaxNum.
MaxNum == 1
\* Most calls of the setters of the engines in a run.  A run sets an engine
\* before the engine converts: the Serializer while the typed value awaits
\* its conversion, the Deserializer until the plain value is converted.
MaxSetterCalls == 1

----------------------------------------------------------------------------
(* JavaScript values.  k is the result of typeof; an object carries its    *)
(* constructor.  A keyed object holds its own enumerable properties as a   *)
(* sequence of <<key, value>> in insertion order; an Array holds its       *)
(* elements, a Set its elements in iteration order, a Map its <<key,       *)
(* value>> entries in iteration order.                                     *)

Undef == [k |-> "undefined"]
Null == [k |-> "null"]
Num(n) == [k |-> "number", n |-> n]
Str(s) == [k |-> "string", s |-> s]
Bool(b) == [k |-> "boolean", b |-> b]
Obj(c, f) == [k |-> "object", ctor |-> c, f |-> f]
Arr(e) == [k |-> "object", ctor |-> "Array", e |-> e]
SetV(e) == [k |-> "object", ctor |-> "Set", e |-> e]
MapV(e) == [k |-> "object", ctor |-> "Map", e |-> e]

\* A Date holds its time value, the milliseconds since the epoch; the Date
\* made of a text that is no date is invalid.  A Date has no own enumerable
\* properties.
DateV(t) == [k |-> "object", ctor |-> "Date", f |-> <<>>, valid |-> TRUE, t |-> t]
InvalidDate == [k |-> "object", ctor |-> "Date", f |-> <<>>, valid |-> FALSE, t |-> 0]

\* An ArrayBuffer holds its bytes, a DataView the bytes of its buffer; a
\* fixed-width numeric array holds its elements, which are its own
\* enumerable properties as well.
BufferV(bytes) == [k |-> "object", ctor |-> "ArrayBuffer", f |-> <<>>, bytes |-> bytes]
DataViewV(bytes) == [k |-> "object", ctor |-> "DataView", f |-> <<>>, bytes |-> bytes]
TypedArrayV(c, e) ==
    [k |-> "object", ctor |-> c,
     f |-> [i \in 1..Len(e) |-> <<ToString(i - 1), e[i]>>], e |-> e]

IsKeyed(v) == v.k = "object" /\ v.ctor \notin {"Array", "Set", "Map"}
IsArray(v) == v.k = "object" /\ v.ctor = "Array"

\* value.constructor
CtorOf(v) ==
    CASE v.k = "number" -> "Number"
      [] v.k = "string" -> "String"
      [] v.k = "boolean" -> "Boolean"
      [] v.k = "object" -> v.ctor
      [] OTHER -> "undefined"

\* Date.prototype.toString in the UTC time zone, for an instant less than a
\* day away from the epoch.
DateToString(date) ==
    LET msPerDay == 86400000
        seconds == (date.t % msPerDay) \div 1000
        day == IF date.t < 0 THEN "Wed Dec 31 1969 " ELSE "Thu Jan 01 1970 "
        TwoDigits(n) == IF n < 10 THEN "0" \o ToString(n) ELSE ToString(n)
    IN  IF ~date.valid THEN "Invalid Date"
        ELSE day \o TwoDigits(seconds \div 3600) \o ":"
             \o TwoDigits((seconds % 3600) \div 60) \o ":"
             \o TwoDigits(seconds % 60) \o " GMT+0000 (Coordinated Universal Time)"

RECURSIVE ToKey(_), JoinKeys(_)
\* Array.prototype.join: null and undefined elements are written empty.
JoinKeys(e) ==
    IF e = <<>> THEN ""
    ELSE (IF e[1].k \in {"null", "undefined"} THEN "" ELSE ToKey(e[1]))
         \o (IF Len(e) = 1 THEN "" ELSE "," \o JoinKeys(Tail(e)))

\* String(value), which makes a value a property key.
ToKey(v) ==
    CASE v.k = "string" -> v.s
      [] v.k = "number" -> ToString(v.n)
      [] v.k = "boolean" -> IF v.b THEN "true" ELSE "false"
      [] v.k = "null" -> "null"
      [] v.k = "undefined" -> "undefined"
      [] v.ctor = "Date" -> DateToString(v)
      [] v.ctor \in {"Set", "Map", "ArrayBuffer", "DataView"} -> "[object " \o v.ctor \o "]"
      [] "e" \in DOMAIN v -> JoinKeys(v.e)
      [] OTHER -> "[object Object]"

HasKey(f, key) == \E i \in 1..Len(f) : f[i][1] = key

\* object[key]: undefined when the object has no such property.
Get(f, key) ==
    IF HasKey(f, key)
    THEN f[CHOOSE i \in 1..Len(f) : f[i][1] = key][2]
    ELSE Undef

\* The array-index keys the model can produce, and the index a key denotes.
IndexKeys == {ToString(n) : n \in 0..(MaxNum + MaxLen)}
IndexOf(key) == CHOOSE n \in 0..(MaxNum + MaxLen) : ToString(n) = key

\* Whether property key a is enumerated before a new property key b: index
\* keys come first, in ascending order, then the others in insertion order.
Before(a, b) ==
    IF b \in IndexKeys
    THEN a \in IndexKeys /\ IndexOf(a) < IndexOf(b)
    ELSE TRUE

\* object[key] = value: an existing property keeps its place.
Put(f, key, value) ==
    IF HasKey(f, key)
    THEN [i \in 1..Len(f) |-> IF f[i][1] = key THEN <<key, value>> ELSE f[i]]
    ELSE LET n == Cardinality({i \in 1..Len(f) : Before(f[i][1], key)})
         IN  SubSeq(f, 1, n) \o <<(<<key, value>>)>> \o SubSeq(f, n + 1, Len(f))

Keys(f) == {f[i][1] : i \in 1..Len(f)}

RECURSIVE PutAll(_, _)
\* Object.assign(target, source) and the object spread on the fields.
PutAll(f, g) ==
    IF g = <<>> THEN f ELSE PutAll(Put(f, g[1][1], g[1][2]), Tail(g))

----------------------------------------------------------------------------
(* Type descriptors. *)

NoType == [kind |-> "none"]
Concrete(c) == [kind |-> "concrete", ctor |-> c]
\* The root constructor a TypedJSON instance is made for.
Ctor(c) == [kind |-> "constructor", ctor |-> c]
\* The property 'ctor' of an object that has none.
NoCtor == "undefined"
ArrayT(e) == [kind |-> "array", ctor |-> "Array", elementType |-> e]
SetT(e) == [kind |-> "set", ctor |-> "Set", elementType |-> e]
MapT(kt, vt, shape) ==
    [kind |-> "map", ctor |-> "Map", keyType |-> kt, valueType |-> vt, shape |-> shape]

----------------------------------------------------------------------------
(* Options (preserveNull). *)

NoOptions == [preserveNull |-> "unset"]
PreserveNull == [preserveNull |-> "on"]
DropNull == [preserveNull |-> "off"]

mergeOptions(existing, moreSpecific) ==
    IF moreSpecific.preserveNull = "unset" THEN existing ELSE moreSpecific

\* getOptionValue('preserveNull', options): the default is false.
getOptionValue(options) == options.preserveNull = "on"

----------------------------------------------------------------------------
(* The classes of the run and their prototype chains.  Simple is the class *)
(* of the array tests; StructuralBase, SemanticBaseOne, ConcreteOne and    *)
(* AnotherConcreteOne are the hierarchy of the custom type-hint tests;     *)
(* SemanticBaseTwo, ConcreteTwo and AnotherConcreteTwo are the second       *)
(* hierarchy of those tests; Shape and its subclasses use the default       *)
(* "__type" protocol; Note and Memo carry preserveNull options on the class *)
(* and on a member; Pair holds a member of each hierarchy; Album holds an   *)
(* array of Simple; Translations is the class of the raw-object tests; the  *)
(* Loose classes each declare one member whose type descriptor is           *)
(* incomplete; Made has an initializer callback and Kit holds Mades; the    *)
(* Hook classes name hooks; Ticket has required members; Vehicle, Car,      *)
(* Part, Bolt and Garage declare known types at different levels.           *)

FloatArrays == {"Float32Array", "Float64Array"}
IntArrays == {"Int8Array", "Int16Array", "Int32Array"}
UintArrays == {"Uint8Array", "Uint8ClampedArray", "Uint16Array", "Uint32Array"}
TypedArrays == FloatArrays \cup IntArrays \cup UintArrays

Builtins ==
    {"Object", "Number", "String", "Boolean", "Array", "Set", "Map",
     "Date", "ArrayBuffer", "DataView"} \cup TypedArrays

Parent ==
    [c \in {"Simple", "StructuralBase", "Shape", "Drawing", "Note", "Memo",
            "Pair", "Album", "Translations", "LooseMember", "LooseArray", "LooseSet",
            "LooseMapKey", "LooseMapValue",
            "Made", "Kit", "Shelf", "Ticket", "HookInstance", "HookBoth", "HookStatic", "HookNone",
            "Number", "String", "Boolean", "Array", "Set", "Map"} |-> "Object"]
    @@ [c \in {"Date", "ArrayBuffer", "DataView"} \cup TypedArrays |-> "Object"]
    @@ ("MadeChild" :> "Made")
    @@ [c \in {"Vehicle", "Part", "Garage"} |-> "Object"]
    @@ ("Car" :> "Vehicle")
    @@ ("Bolt" :> "Part")
    @@ ("SemanticBaseOne" :> "StructuralBase")
    @@ ("ConcreteOne" :> "SemanticBaseOne")
    @@ ("AnotherConcreteOne" :> "SemanticBaseOne")
    @@ ("SemanticBaseTwo" :> "StructuralBase")
    @@ ("ConcreteTwo" :> "SemanticBaseTwo")
    @@ ("AnotherConcreteTwo" :> "SemanticBaseTwo")
    @@ ("Circle" :> "Shape")
    @@ ("Square" :> "Shape")
    @@ ("Blob" :> "Shape")

RECURSIVE isSubtypeOf(_, _)
\* A === B || A.prototype instanceof B
isSubtypeOf(A, B) ==
    \/ A = B
    \/ A \in DOMAIN Parent /\ isSubtypeOf(Parent[A], B)

\* nameof(ctor)
nameof(ctor) == ctor

isValueDefined(value) == value.k \notin {"undefined", "null"}

isInstanceOf(value, ctor) ==
    CASE value.k = "number" -> ctor = "Number"
      [] value.k = "string" -> ctor = "String"
      [] value.k = "boolean" -> ctor = "Boolean"
      [] value.k = "object" -> isSubtypeOf(value.ctor, ctor)
      [] OTHER -> FALSE

\* A @jsonMember: the wire name is the property key.
Member(key, type, options) ==
    [key |-> key, name |-> key, type |-> type, options |-> options,
     isRequired |-> FALSE, serializer |-> "none", deserializer |-> "none"]

\* A member declared with isRequired.
Required(member) == [member EXCEPT !.isRequired = TRUE]

\* The metadata @jsonObject(options) leaves on a class.  A subclass starts from
\* its parent's record: dataMembers holds the members of the ancestors first,
\* then the class's own, and the parent's known types, type-hint emitter and
\* type resolver are kept unless the subclass declares its own.
JsonObjectMetadata(classType, name, knownTypes, emitter, resolver, options, dataMembers) ==
    [defined |-> TRUE, classType |-> classType, isExplicitlyMarked |-> TRUE,
     name |-> name, knownTypes |-> knownTypes,
     typeHintEmitter |-> emitter, typeResolver |-> resolver,
     options |-> options, dataMembers |-> dataMembers,
     initializerCallback |-> "none",
     onDeserializedMethodName |-> "", beforeSerializationMethodName |-> ""]

NoMetadata ==
    [defined |-> FALSE, classType |-> "", isExplicitlyMarked |-> FALSE,
     name |-> "", knownTypes |-> <<>>,
     typeHintEmitter |-> "none", typeResolver |-> "none",
     options |-> NoOptions, dataMembers |-> <<>>,
     initializerCallback |-> "none",
     onDeserializedMethodName |-> "", beforeSerializationMethodName |-> ""]

StringT == Concrete("String")
NumberT == Concrete("Number")

StructuralMembers == <<Member("value", StringT, NoOptions)>>
SemanticOneMembers == StructuralMembers \o <<Member("prop1", NumberT, NoOptions)>>
SemanticTwoMembers == StructuralMembers \o <<Member("prop2", NumberT, NoOptions)>>
ShapeMembers == <<Member("id", NumberT, NoOptions)>>

Registry ==
    ("Simple" :> JsonObjectMetadata("Simple", "", <<>>, "none", "none", NoOptions,
        <<Member("strProp", StringT, NoOptions), Member("numProp", NumberT, NoOptions)>>))
    @@ ("SemanticBaseOne" :> JsonObjectMetadata("SemanticBaseOne", "", <<>>,
        "staticType", "staticType", NoOptions, SemanticOneMembers))
    @@ ("ConcreteOne" :> JsonObjectMetadata("ConcreteOne", "", <<>>,
        "staticType", "staticType", NoOptions,
        SemanticOneMembers \o <<Member("propSub", StringT, NoOptions)>>))
    @@ ("AnotherConcreteOne" :> JsonObjectMetadata("AnotherConcreteOne", "", <<>>,
        "staticType", "staticType", NoOptions,
        SemanticOneMembers \o <<Member("propSub", NumberT, NoOptions)>>))
    @@ ("Shape" :> JsonObjectMetadata("Shape", "", <<"Circle", "Blob">>,
        "none", "none", NoOptions, ShapeMembers))
    @@ ("Circle" :> JsonObjectMetadata("Circle", "circle", <<"Circle", "Blob">>, "none", "none", NoOptions,
        ShapeMembers \o <<Member("r", NumberT, NoOptions)>>))
    @@ ("Square" :> JsonObjectMetadata("Square", "", <<"Circle", "Blob">>, "none", "none", NoOptions,
        ShapeMembers \o <<Member("side", NumberT, NoOptions)>>))
    @@ ("Drawing" :> JsonObjectMetadata("Drawing", "", <<>>, "none", "none", NoOptions,
        <<Member("title", StringT, NoOptions), Member("main", Concrete("Shape"), NoOptions)>>))
    @@ ("Note" :> JsonObjectMetadata("Note", "", <<>>, "none", "none", NoOptions,
        <<Member("text", StringT, NoOptions), Member("tag", StringT, PreserveNull)>>))
    @@ ("Memo" :> JsonObjectMetadata("Memo", "", <<>>, "none", "none", PreserveNull,
        <<Member("text", StringT, NoOptions), Member("tag", StringT, DropNull)>>))
    @@ ("SemanticBaseTwo" :> JsonObjectMetadata("SemanticBaseTwo", "", <<>>,
        "hint", "hint", NoOptions, SemanticTwoMembers))
    @@ ("ConcreteTwo" :> JsonObjectMetadata("ConcreteTwo", "", <<>>,
        "hint", "hint", NoOptions,
        SemanticTwoMembers \o <<Member("propSub", StringT, NoOptions)>>))
    @@ ("AnotherConcreteTwo" :> JsonObjectMetadata("AnotherConcreteTwo", "", <<>>,
        "hint", "hint", NoOptions,
        SemanticTwoMembers \o <<Member("propSub", NumberT, NoOptions)>>))
    @@ ("Pair" :> JsonObjectMetadata("Pair", "", <<>>, "none", "staticType", NoOptions,
        <<Member("one", Concrete("SemanticBaseOne"), NoOptions),
          Member("shape", Concrete("Shape"), NoOptions),
          Member("two", Concrete("SemanticBaseTwo"), NoOptions)>>))
    @@ ("Album" :> JsonObjectMetadata("Album", "", <<>>, "none", "none", NoOptions,
        <<Member("title", StringT, NoOptions),
          Member("items", ArrayT(Concrete("Simple")), NoOptions)>>))
    @@ ("Translations" :> JsonObjectMetadata("Translations", "", <<>>, "none", "none",
        NoOptions, <<Member("localization", ArrayT(Concrete("Object")), NoOptions)>>))
    @@ ("LooseMember" :> JsonObjectMetadata("LooseMember", "", <<>>, "none", "none",
        NoOptions, <<Member("any", NoType, NoOptions), Member("label", StringT, NoOptions)>>))
    @@ ("LooseArray" :> JsonObjectMetadata("LooseArray", "", <<>>, "none", "none",
        NoOptions, <<Member("list", ArrayT(NoType), NoOptions),
                     Member("label", StringT, NoOptions)>>))
    @@ ("LooseSet" :> JsonObjectMetadata("LooseSet", "", <<>>, "none", "none",
        NoOptions, <<Member("list", SetT(NoType), NoOptions),
                     Member("label", StringT, NoOptions)>>))
    @@ ("LooseMapKey" :> JsonObjectMetadata("LooseMapKey", "", <<>>, "none", "none",
        NoOptions, <<Member("list", MapT(NoType, NumberT, "ARRAY"), NoOptions),
                     Member("label", StringT, NoOptions)>>))
    @@ ("LooseMapValue" :> JsonObjectMetadata("LooseMapValue", "", <<>>, "none", "none",
        NoOptions, <<Member("list", MapT(StringT, NoType, "ARRAY"), NoOptions),
                     Member("label", StringT, NoOptions)>>))
    @@ ("Made" :> [JsonObjectMetadata("Made", "", <<>>, "none", "none", NoOptions,
                     <<Member("mode", StringT, NoOptions),
                       Member("size", NumberT, NoOptions)>>)
                   EXCEPT !.initializerCallback = "byMode",
                          !.onDeserializedMethodName = "ready"])
    @@ ("Kit" :> JsonObjectMetadata("Kit", "", <<>>, "none", "none", NoOptions,
        <<Member("made", Concrete("Made"), NoOptions),
          Member("items", ArrayT(Concrete("Made")), NoOptions),
          Member("label", StringT, NoOptions)>>))
    @@ ("Shelf" :> JsonObjectMetadata("Shelf", "", <<>>, "none", "none", NoOptions,
        <<Member("tags", SetT(Concrete("Simple")), NoOptions),
          Member("byName", MapT(StringT, Concrete("Simple"), "ARRAY"), NoOptions),
          Member("rows", ArrayT(ArrayT(Concrete("Simple"))), NoOptions)>>))
    @@ [c \in {"HookInstance", "HookBoth", "HookStatic", "HookNone"} |->
          [JsonObjectMetadata(c, "", <<>>, "none", "none", NoOptions,
                              <<Member("label", StringT, NoOptions)>>)
             EXCEPT !.beforeSerializationMethodName = "prepare",
                    !.onDeserializedMethodName = "ready"]]
    @@ ("Vehicle" :> JsonObjectMetadata("Vehicle", "", <<"Car">>, "none", "none", NoOptions,
        <<Member("id", NumberT, NoOptions)>>))
    @@ ("Car" :> JsonObjectMetadata("Car", "", <<"Car", "Bolt">>, "none", "none", NoOptions,
        <<Member("id", NumberT, NoOptions), Member("part", Concrete("Part"), NoOptions)>>))
    @@ ("Part" :> JsonObjectMetadata("Part", "", <<>>, "none", "none", NoOptions,
        <<Member("name", StringT, NoOptions)>>))
    @@ ("Bolt" :> JsonObjectMetadata("Bolt", "", <<>>, "none", "none", NoOptions,
        <<Member("name", StringT, NoOptions)>>))
    @@ ("Garage" :> JsonObjectMetadata("Garage", "", <<>>, "none", "none", NoOptions,
        <<Member("first", Concrete("Vehicle"), NoOptions),
          Member("spare", Concrete("Part"), NoOptions)>>))
    @@ ("Ticket" :> JsonObjectMetadata("Ticket", "", <<>>, "none", "none", NoOptions,
        <<Required(Member("code", StringT, NoOptions)),
          Member("note", StringT, NoOptions),
          Required(Member("count", NumberT, NoOptions))>>))

\* JsonObjectMetadata.getFromConstructor: the explicit metadata of the class
\* itself, nothing for a class that was never marked with @jsonObject.
getFromConstructor(ctor) ==
    IF ctor \in DOMAIN Registry THEN Registry[ctor] ELSE NoMetadata

\* The static 'type' property of the classes of the custom-hint tests.
StaticType(ctor) ==
    CASE ctor = "ConcreteOne" -> Str("sub-one")
      [] ctor = "AnotherConcreteOne" -> Str("sub-two")
      [] OTHER -> Undef

----------------------------------------------------------------------------
(* What a conversion returns: the value, the events it caused in order     *)
(* (each call of the error handler), and the exception it ended with.      *)

\* The TypeError the runtime raises for a property read on null or undefined
\* carries the message "Cannot read properties of null (reading 'x')".
NoExc == [e |-> "none"]
TypeError(msg) == [e |-> "TypeError", msg |-> msg]

Ret(v) == [v |-> v, log |-> <<>>, exc |-> NoExc]
Throw(e) == [v |-> Undef, log |-> <<>>, exc |-> e]
Raised(r) == r.exc # NoExc

\* errorHandler(e): the handler is logError, which returns, or a handler that
\* re-throws the error it is given.
Report(errorHandler, e) ==
    [v |-> Undef, log |-> <<[ev |-> "error", err |-> e]>>,
     exc |-> IF errorHandler = "throw" THEN e ELSE NoExc]

\* r, after the events of log.
After(log, r) == [r EXCEPT !.log = log \o r.log]

\* The errors the handler was called with, in order.
Errors(r) == SelectSeq(r.log, LAMBDA x : x.ev = "error")

\* The events of a conversion besides the calls of the error handler: a call
\* of convertSingleValue, a call of a type-hint emitter with the target object
\* it is given, a call of a type resolver with what it returned.
Converting(memberName, sourceObject) ==
    [ev |-> "convert", name |-> memberName, value |-> sourceObject]
Emitting(typeHintEmitter, targetObject, sourceObject) ==
    [ev |-> "emit", emitter |-> typeHintEmitter, target |-> targetObject,
     source |-> sourceObject]
Resolving(typeResolver, sourceObject, expectedSelfType, typeFromTypeHint, knownTypes, resolverKnownTypes, memberKnownTypes) ==
    [ev |-> "resolve", resolver |-> typeResolver, source |-> sourceObject,
     expected |-> expectedSelfType, resolved |-> typeFromTypeHint,
     received |-> knownTypes, resolving |-> resolverKnownTypes,
     members |-> memberKnownTypes]

\* A call of an initializer callback with the object of the deserialized
\* properties and the source object, and a call of a hook of a class, as a
\* method of the object or as a static method of its constructor.
Initializing(callback, properties, sourceObject) ==
    [ev |-> "init", callback |-> callback, properties |-> properties,
     source |-> sourceObject]
Hook(name, on, object) == [ev |-> "hook", name |-> name, on |-> on, object |-> object]

\* The methods the instances of a class have, and the static methods of the
\* class: Made and HookInstance declare their hooks as methods, HookStatic as
\* static methods, HookBoth as both, and HookNone names hooks it does not
\* declare.
Methods(ctor) ==
    CASE ctor \in {"Made", "MadeChild"} -> {"ready"}
      [] ctor \in {"HookInstance", "HookBoth"} -> {"prepare", "ready"}
      [] OTHER -> {}
Statics(ctor) ==
    CASE ctor \in {"HookStatic", "HookBoth"} -> {"prepare", "ready"}
      [] OTHER -> {}

\* typeof object[name] === "function"
HasMethod(object, name) == object.k = "object" /\ name \in Methods(object.ctor)
\* typeof object.constructor[name] === "function"
HasStatic(object, name) == object.k = "object" /\ name \in Statics(object.ctor)

----------------------------------------------------------------------------
(* The Serializer. *)

\* An emitter that always writes the name of the constructor.
defaultTypeEmitter_ctorName(targetObject, sourceObject, expectedSourceType, sourceTypeMetadata) ==
    IF sourceObject.ctor # expectedSourceType
    THEN Put(targetObject, "__type", Str(nameof(sourceObject.ctor)))
    ELSE targetObject

\* An emitter that writes a hint only for classes with metadata.
defaultTypeEmitter_typedOnly(targetObject, sourceObject, expectedSourceType, sourceTypeMetadata) ==
    IF sourceObject.ctor # expectedSourceType /\ sourceTypeMetadata.defined
    THEN Put(targetObject, "__type",
             Str(IF sourceTypeMetadata.name # ""
                 THEN sourceTypeMetadata.name
                 ELSE nameof(sourceObject.ctor)))
    ELSE targetObject

defaultTypeEmitter(targetObject, sourceObject, expectedSourceType, sourceTypeMetadata) ==
    IF sourceObject.ctor # expectedSourceType
    THEN Put(targetObject, "__type",
             Str(IF sourceTypeMetadata.defined /\ sourceTypeMetadata.name # ""
                 THEN sourceTypeMetadata.name
                 ELSE nameof(sourceObject.ctor)))
    ELSE targetObject

\* The type-hint emitter of the custom-hint tests:
\* targetObject.type = sourceObject.constructor.type
staticTypeEmitter(targetObject, sourceObject) ==
    Put(targetObject, "type", StaticType(sourceObject.ctor))

\* The type-hint emitter of the second hierarchy of the custom-hint tests:
\* targetObject.hint = sourceObject instanceof ConcreteTwo ? 'first' : 'another'
hintEmitter(targetObject, sourceObject) ==
    Put(targetObject, "hint",
        IF isInstanceOf(sourceObject, "ConcreteTwo") THEN Str("first") ELSE Str("another"))

TypeHintEmitter(emitter, targetObject, sourceObject, expectedSourceType, sourceTypeMetadata) ==
    CASE emitter = "staticType" -> staticTypeEmitter(targetObject, sourceObject)
      [] emitter = "hint" -> hintEmitter(targetObject, sourceObject)
      [] OTHER -> defaultTypeEmitter(targetObject, sourceObject, expectedSourceType,
                                     sourceTypeMetadata)

\* Serializer.serializationStrategy
serializationStrategy ==
    [c \in {"Date", "Number", "String", "Boolean"} |-> "identity"]
    @@ ("ArrayBuffer" :> "convertAsArrayBuffer")
    @@ ("DataView" :> "convertAsDataView")
    @@ ("Array" :> "convertAsArray")
    @@ ("Set" :> "convertAsSet")
    @@ ("Map" :> "convertAsMap")
    @@ [c \in {"Float32Array", "Float64Array", "Int8Array", "Uint8Array",
               "Uint8ClampedArray", "Int16Array", "Uint16Array", "Int32Array",
               "Uint32Array"} |-> "convertAsTypedArray"]

\* The 16-bit character codes of the texts held in buffers, and
\* String.fromCharCode of such a code.
CharCodes == {97, 98}

fromCharCode(charCode) ==
    CASE charCode = 97 -> "a"
      [] charCode = 98 -> "b"

RECURSIVE joinChars(_)
\* charCodes.map(String.fromCharCode).join("")
joinChars(charCodes) ==
    IF charCodes = <<>> THEN ""
    ELSE fromCharCode(Head(charCodes)) \o joinChars(Tail(charCodes))

\* new Uint16Array(buffer): the 16-bit units of the bytes, the low byte
\* first.
Uint16Units(bytes) ==
    [i \in 1..(Len(bytes) \div 2) |-> bytes[2 * i - 1] + 256 * bytes[2 * i]]

RangeError(msg) == [e |-> "RangeError", msg |-> msg]

\* convertAsTypedArray: Array.from(sourceObject)
convertAsTypedArray(sourceObject) == Ret(Arr(sourceObject.e))

\* convertAsArrayBuffer; the Uint16Array constructor throws for a buffer of
\* an odd number of bytes.
convertAsArrayBuffer(buffer) ==
    IF Len(buffer.bytes) % 2 # 0
    THEN Throw(RangeError("byte length of Uint16Array should be a multiple of 2"))
    ELSE Ret(Str(joinChars(Uint16Units(buffer.bytes))))

\* convertAsDataView: dataView.buffer converted as an ArrayBuffer.
convertAsDataView(dataView) == convertAsArrayBuffer(BufferV(dataView.bytes))

\* A serializer that reads preserveNull from its own options only.
Ser_retrievePreserveNull_global(serializer, memberOptions) ==
    getOptionValue(serializer.options)

Ser_retrievePreserveNull(serializer, memberOptions) ==
    getOptionValue(mergeOptions(serializer.options, memberOptions))

\* memberName += "[]", for a member name that is set.
Brackets(memberName) == IF memberName # "" THEN memberName \o "[]" ELSE memberName

RECURSIVE Ser_convertSingleValue(_, _, _, _, _)
RECURSIVE Ser_convertAsObject(_, _, _, _, _)
RECURSIVE Ser_dataMembers(_, _, _, _, _, _)
RECURSIVE Ser_convertAsArray(_, _, _, _, _)
RECURSIVE Ser_mapElements(_, _, _, _, _, _)
RECURSIVE Ser_convertAsSet(_, _, _, _, _)
RECURSIVE Ser_setElements(_, _, _, _, _, _)
RECURSIVE Ser_convertAsMap(_, _, _, _, _)
RECURSIVE Ser_mapEntries(_, _, _, _, _, _)

\* A mismatch that is reported and then passes the value on as it is.
Ser_SingleValue_mismatch_passes(serializer, sourceObject, typeDescriptor, memberName) ==
    [Report(serializer.errorHandler,
            TypeError("Could not serialize '" \o memberName \o "': expected '"
                      \o nameof(typeDescriptor.ctor) \o "', got '"
                      \o nameof(CtorOf(sourceObject)) \o "'."))
       EXCEPT !.v = sourceObject]

\* nameof reads the name of the constructor it is given, and throws when it
\* is given none.
Ser_SingleValue_mismatch(serializer, sourceObject, typeDescriptor, memberName) ==
    IF typeDescriptor.ctor = NoCtor
    THEN Throw(TypeError("Cannot read properties of undefined (reading 'name')"))
    ELSE Report(serializer.errorHandler,
                TypeError("Could not serialize '" \o memberName \o "': expected '"
                          \o nameof(typeDescriptor.ctor) \o "', got '"
                          \o nameof(CtorOf(sourceObject)) \o "'."))

\* A call that looks for the static method first.
Ser_beforeSerialization_staticFirst(serializer, sourceTypeMetadata, sourceObject) ==
    IF sourceTypeMetadata.beforeSerializationMethodName = "" THEN Ret(Undef)
    ELSE IF HasStatic(sourceObject, sourceTypeMetadata.beforeSerializationMethodName)
    THEN [v |-> Undef,
          log |-> <<Hook(sourceTypeMetadata.beforeSerializationMethodName, "static",
                         sourceObject)>>,
          exc |-> NoExc]
    ELSE IF HasMethod(sourceObject, sourceTypeMetadata.beforeSerializationMethodName)
    THEN [v |-> Undef,
          log |-> <<Hook(sourceTypeMetadata.beforeSerializationMethodName, "instance",
                         sourceObject)>>,
          exc |-> NoExc]
    ELSE Report(serializer.errorHandler,
                TypeError("beforeSerialization callback '"
                          \o nameof(sourceTypeMetadata.classType) \o "."
                          \o sourceTypeMetadata.beforeSerializationMethodName
                          \o "' is not a method."))

\* The call of the beforeSerialization method of the class, if it names one.
Ser_beforeSerialization(serializer, sourceTypeMetadata, sourceObject) ==
    IF sourceTypeMetadata.beforeSerializationMethodName = "" THEN Ret(Undef)
    ELSE IF HasMethod(sourceObject, sourceTypeMetadata.beforeSerializationMethodName)
    THEN [v |-> Undef,
          log |-> <<Hook(sourceTypeMetadata.beforeSerializationMethodName, "instance",
                         sourceObject)>>,
          exc |-> NoExc]
    ELSE IF HasStatic(sourceObject, sourceTypeMetadata.beforeSerializationMethodName)
    THEN [v |-> Undef,
          log |-> <<Hook(sourceTypeMetadata.beforeSerializationMethodName, "static",
                         sourceObject)>>,
          exc |-> NoExc]
    ELSE Report(serializer.errorHandler,
                TypeError("beforeSerialization callback '"
                          \o nameof(sourceTypeMetadata.classType) \o "."
                          \o sourceTypeMetadata.beforeSerializationMethodName
                          \o "' is not a method."))

Ser_convertSingleValue(serializer, sourceObject, typeDescriptor, memberName, memberOptions) ==
  After(<<Converting(memberName, sourceObject)>>,
    IF Ser_retrievePreserveNull(serializer, memberOptions) /\ sourceObject = Null
    THEN Ret(Null)
    ELSE IF ~isValueDefined(sourceObject) THEN Ret(Undef)
    ELSE IF sourceObject.k = "object" /\ typeDescriptor.ctor = NoCtor
    THEN \* isInstanceOf evaluates (value instanceof undefined)
         Throw(TypeError("Right-hand side of 'instanceof' is not an object"))
    ELSE IF ~isInstanceOf(sourceObject, typeDescriptor.ctor)
    THEN Ser_SingleValue_mismatch(serializer, sourceObject, typeDescriptor, memberName)
    ELSE IF typeDescriptor.ctor \in DOMAIN serializationStrategy
    THEN CASE serializationStrategy[typeDescriptor.ctor] = "identity" -> Ret(sourceObject)
           [] serializationStrategy[typeDescriptor.ctor] = "convertAsArrayBuffer" ->
                convertAsArrayBuffer(sourceObject)
           [] serializationStrategy[typeDescriptor.ctor] = "convertAsDataView" ->
                convertAsDataView(sourceObject)
           [] serializationStrategy[typeDescriptor.ctor] = "convertAsTypedArray" ->
                convertAsTypedArray(sourceObject)
           [] serializationStrategy[typeDescriptor.ctor] = "convertAsArray" ->
                Ser_convertAsArray(serializer, sourceObject, typeDescriptor, memberName,
                                   memberOptions)
           [] serializationStrategy[typeDescriptor.ctor] = "convertAsSet" ->
                Ser_convertAsSet(serializer, sourceObject, typeDescriptor, memberName,
                                 memberOptions)
           [] serializationStrategy[typeDescriptor.ctor] = "convertAsMap" ->
                Ser_convertAsMap(serializer, sourceObject, typeDescriptor, memberName,
                                 memberOptions)
    ELSE IF sourceObject.k = "object"
    THEN Ser_convertAsObject(serializer, sourceObject, typeDescriptor, memberName,
                             memberOptions)
    ELSE Report(serializer.errorHandler,
                TypeError("Could not serialize '" \o memberName
                          \o "': don't know how to serialize this type'.")))

\* The loop over sourceMeta.dataMembers, from member i on; acc holds the target
\* object built so far and the events so far.
Ser_dataMembers(serializer, sourceObject, sourceMeta, classOptions, i, acc) ==
    IF i > Len(sourceMeta.dataMembers) THEN acc
    ELSE
      LET objMemberMetadata == sourceMeta.dataMembers[i]
          objMemberOptions == mergeOptions(classOptions, objMemberMetadata.options)
          serialized ==
            IF objMemberMetadata.serializer # "none"
            THEN Ret(Get(sourceObject.f, objMemberMetadata.key))
            ELSE IF objMemberMetadata.type # NoType
            THEN Ser_convertSingleValue(
                    serializer,
                    Get(sourceObject.f, objMemberMetadata.key),
                    objMemberMetadata.type,
                    nameof(sourceMeta.classType) \o "." \o objMemberMetadata.key,
                    objMemberOptions)
            ELSE Throw(TypeError("Could not serialize " \o objMemberMetadata.name
                                 \o ", there is no constructor nor serialization function to use."))
      IN
        IF Raised(serialized)
        THEN After(acc.log, serialized)
        ELSE Ser_dataMembers(serializer, sourceObject, sourceMeta, classOptions, i + 1,
               [v |-> IF \/ isValueDefined(serialized.v)
                         \/ (Ser_retrievePreserveNull(serializer, objMemberOptions)
                             /\ serialized.v = Null)
                      THEN Put(acc.v, objMemberMetadata.name, serialized.v)
                      ELSE acc.v,
                log |-> acc.log \o serialized.log,
                exc |-> NoExc])

\* A conversion that always calls the emitter of the serializer.
Ser_convertAsObject_globalEmitter(serializer, sourceObject, typeDescriptor, memberName, memberOptions) ==
    LET sourceTypeMetadata ==
          IF sourceObject.ctor # typeDescriptor.ctor
             /\ isSubtypeOf(sourceObject.ctor, typeDescriptor.ctor)
          THEN getFromConstructor(sourceObject.ctor)
          ELSE getFromConstructor(typeDescriptor.ctor)
        typeHintEmitter == serializer.typeHintEmitter
        target ==
          IF sourceTypeMetadata.defined
          THEN Ser_dataMembers(
                      serializer, sourceObject, sourceTypeMetadata,
                      mergeOptions(serializer.options, sourceTypeMetadata.options),
                      1, [v |-> <<>>, log |-> <<>>, exc |-> NoExc])
          ELSE Ret(sourceObject.f)
    IN
      IF Raised(target) THEN target
      ELSE [v |-> Obj("Object",
                      TypeHintEmitter(typeHintEmitter, target.v, sourceObject,
                                      typeDescriptor.ctor, sourceTypeMetadata)),
            log |-> Append(target.log,
                           Emitting(typeHintEmitter, target.v, sourceObject)),
            exc |-> NoExc]

Ser_convertAsObject(serializer, sourceObject, typeDescriptor, memberName, memberOptions) ==
    LET sourceTypeMetadata ==
          IF sourceObject.ctor # typeDescriptor.ctor
             /\ isSubtypeOf(sourceObject.ctor, typeDescriptor.ctor)
          THEN getFromConstructor(sourceObject.ctor)
          ELSE getFromConstructor(typeDescriptor.ctor)
        typeHintEmitter ==
          IF sourceTypeMetadata.defined /\ sourceTypeMetadata.typeHintEmitter # "none"
          THEN sourceTypeMetadata.typeHintEmitter
          ELSE serializer.typeHintEmitter
        before ==
          IF sourceTypeMetadata.defined
          THEN Ser_beforeSerialization(serializer, sourceTypeMetadata, sourceObject)
          ELSE Ret(Undef)
        target ==
          IF sourceTypeMetadata.defined
          THEN IF Raised(before) THEN before
               ELSE Ser_dataMembers(
                      serializer, sourceObject, sourceTypeMetadata,
                      mergeOptions(serializer.options, sourceTypeMetadata.options),
                      1, [v |-> <<>>, log |-> before.log, exc |-> NoExc])
          ELSE Ret(sourceObject.f)
    IN
      IF Raised(target) THEN target
      ELSE [v |-> Obj("Object",
                      TypeHintEmitter(typeHintEmitter, target.v, sourceObject,
                                      typeDescriptor.ctor, sourceTypeMetadata)),
            log |-> Append(target.log,
                           Emitting(typeHintEmitter, target.v, sourceObject)),
            exc |-> NoExc]

\* The elements of sourceObject.map(...), from element i on.
Ser_mapElements(serializer, elements, typeDescriptor, memberName, memberOptions, acc) ==
    IF elements = <<>> THEN acc
    ELSE
      LET r == Ser_convertSingleValue(serializer, Head(elements),
                                      typeDescriptor.elementType, memberName, memberOptions)
      IN  IF Raised(r) THEN After(acc.log, r)
          ELSE Ser_mapElements(serializer, Tail(elements), typeDescriptor, memberName,
                               memberOptions,
                               [v |-> Append(acc.v, r.v), log |-> acc.log \o r.log,
                                exc |-> NoExc])

\* The indexes whose element fails the check of each element's type.
Ser_badElements(serializer, sourceObject, typeDescriptor, memberOptions) ==
    {i \in 1..Len(sourceObject.e) :
        /\ ~(Ser_retrievePreserveNull(serializer, memberOptions) /\ sourceObject.e[i] = Null)
        /\ ~isInstanceOf(sourceObject.e[i], typeDescriptor.elementType.ctor)}

Ser_convertAsArray(serializer, sourceObject, typeDescriptor, memberName, memberOptions) ==
    IF typeDescriptor.kind # "array"
    THEN Throw(TypeError("Could not serialize " \o memberName
                         \o " as Array: incorrect TypeDescriptor detected, please use"
                         \o " proper annotation or function for this type"))
    ELSE IF typeDescriptor.elementType = NoType
    THEN Throw(TypeError("Could not serialize " \o memberName
                         \o " as Array: missing element type definition."))
    ELSE
      LET bad == Ser_badElements(serializer, sourceObject, typeDescriptor, memberOptions)
          first == CHOOSE i \in bad : \A j \in bad : i <= j
          element == sourceObject.e[first]
          \* element && nameof(element.constructor), in the template string
          actualTypeName ==
            CASE element = Null -> "null"
              [] element = Undef -> "undefined"
              [] element = Num(0) -> "0"
              [] element = Str("") -> ""
              [] element = Bool(FALSE) -> "false"
              [] OTHER -> nameof(CtorOf(element))
      IN
        IF bad # {}
        THEN Throw(TypeError("Could not serialize " \o memberName \o "["
                             \o ToString(first - 1) \o "]: expected '"
                             \o nameof(typeDescriptor.elementType.ctor) \o "', got '"
                             \o actualTypeName \o "'."))
        ELSE
          LET r == Ser_mapElements(serializer, sourceObject.e, typeDescriptor,
                                   Brackets(memberName), memberOptions, Ret(<<>>))
          IN  IF Raised(r) THEN r ELSE [r EXCEPT !.v = Arr(r.v)]

RECURSIVE Ser_setElements_pushAll(_, _, _, _, _, _)
\* A loop that pushes every converted element.
Ser_setElements_pushAll(serializer, elements, typeDescriptor, memberName, memberOptions, acc) ==
    IF elements = <<>> THEN acc
    ELSE
      LET resultElement == Ser_convertSingleValue(serializer, Head(elements),
                              typeDescriptor.elementType, memberName, memberOptions)
      IN  IF Raised(resultElement) THEN After(acc.log, resultElement)
          ELSE Ser_setElements_pushAll(serializer, Tail(elements), typeDescriptor,
                                       memberName, memberOptions,
                                       [v |-> Append(acc.v, resultElement.v),
                                        log |-> acc.log \o resultElement.log,
                                        exc |-> NoExc])

\* The loop sourceObject.forEach(element => ...) of convertAsSet.
Ser_setElements(serializer, elements, typeDescriptor, memberName, memberOptions, acc) ==
    IF elements = <<>> THEN acc
    ELSE
      LET element == Head(elements)
          resultElement == Ser_convertSingleValue(serializer, element,
                              typeDescriptor.elementType, memberName, memberOptions)
      IN  IF Raised(resultElement) THEN After(acc.log, resultElement)
          ELSE Ser_setElements(serializer, Tail(elements), typeDescriptor, memberName,
                               memberOptions,
                               [v |-> IF ~isValueDefined(element)
                                         \/ isValueDefined(resultElement.v)
                                      THEN Append(acc.v, resultElement.v)
                                      ELSE acc.v,
                                log |-> acc.log \o resultElement.log,
                                exc |-> NoExc])

Ser_convertAsSet(serializer, sourceObject, typeDescriptor, memberName, memberOptions) ==
    IF typeDescriptor.kind # "set"
    THEN Throw(TypeError("Could not serialize " \o memberName
                         \o " as Set: incorrect TypeDescriptor detected, please use"
                         \o " proper annotation or function for this type"))
    ELSE IF typeDescriptor.elementType = NoType
    THEN Throw(TypeError("Could not serialize " \o memberName
                         \o " as Set: missing element type definition."))
    ELSE
      LET r == Ser_setElements(serializer, sourceObject.e, typeDescriptor,
                               Brackets(memberName), memberOptions, Ret(<<>>))
      IN  IF Raised(r) THEN r ELSE [r EXCEPT !.v = Arr(r.v)]

\* An emitter of entries that, for the object shape, sets the properties
\* 'key' and 'value' of the result itself.
Ser_emitEntry_flat(resultShape, result, key, value) ==
    IF resultShape = "OBJECT"
    THEN Put(Put(result, "key", key), "value", value)
    ELSE Append(result, Obj("Object", <<(<<"key", key>>), (<<"value", value>>)>>))

\* An entry put on the result of convertAsMap, in the declared shape.
Ser_emitEntry(resultShape, result, key, value) ==
    IF resultShape = "OBJECT"
    THEN Put(result, ToKey(key), value)
    ELSE Append(result, Obj("Object", <<(<<"key", key>>), (<<"value", value>>)>>))

\* The loop sourceObject.forEach((value, key) => ...) of convertAsMap.
Ser_mapEntries(serializer, entries, typeDescriptor, memberName, memberOptions, acc) ==
    IF entries = <<>> THEN acc
    ELSE
      LET key == Ser_convertSingleValue(serializer, Head(entries)[1],
                    typeDescriptor.keyType, memberName, memberOptions)
          value == Ser_convertSingleValue(serializer, Head(entries)[2],
                    typeDescriptor.valueType, memberName, memberOptions)
          keyDefined == isValueDefined(key.v)
          valueDefined == \/ isValueDefined(value.v)
                          \/ (value.v = Null
                              /\ Ser_retrievePreserveNull(serializer, memberOptions))
      IN  IF Raised(key) THEN After(acc.log, key)
          ELSE IF Raised(value) THEN After(acc.log \o key.log, value)
          ELSE Ser_mapEntries(serializer, Tail(entries), typeDescriptor, memberName,
                              memberOptions,
                              [v |-> IF keyDefined /\ valueDefined
                                     THEN Ser_emitEntry(typeDescriptor.shape, acc.v,
                                                        key.v, value.v)
                                     ELSE acc.v,
                               log |-> acc.log \o key.log \o value.log,
                               exc |-> NoExc])

Ser_convertAsMap(serializer, sourceObject, typeDescriptor, memberName, memberOptions) ==
    IF typeDescriptor.kind # "map"
    THEN Throw(TypeError("Could not serialize " \o memberName
                         \o " as Map: incorrect TypeDescriptor detected, please use"
                         \o " proper annotation or function for this type"))
    ELSE IF typeDescriptor.valueType = NoType
    THEN Throw(TypeError("Could not serialize " \o memberName
                         \o " as Map: missing value type definition."))
    ELSE IF typeDescriptor.keyType = NoType
    THEN Throw(TypeError("Could not serialize " \o memberName
                         \o " as Map: missing key type definition."))
    ELSE
      LET r == Ser_mapEntries(serializer, sourceObject.e, typeDescriptor,
                              Brackets(memberName), memberOptions, Ret(<<>>))
      IN  IF Raised(r) THEN r
          ELSE [r EXCEPT !.v = IF typeDescriptor.shape = "OBJECT"
                                 THEN Obj("Object", r.v) ELSE Arr(r.v)]

----------------------------------------------------------------------------
(* The Deserializer. *)

\* The own enumerable properties of a source value: the fields of a keyed
\* object, the index properties of an array.
PropsOf(v) ==
    IF IsKeyed(v) THEN v.f
    ELSE IF IsArray(v) THEN [i \in 1..Len(v.e) |-> <<ToString(i - 1), v.e[i]>>]
    ELSE <<>>

\* Whether a value is truthy.
Truthy(v) ==
    CASE v.k \in {"undefined", "null"} -> FALSE
      [] v.k = "number" -> v.n # 0
      [] v.k = "string" -> v.s # ""
      [] v.k = "boolean" -> v.b
      [] OTHER -> TRUE

\* A known-types map is a function from type names to constructors; "" stands
\* for the undefined a type resolver returns when it resolves nothing.
NoKnownTypes == [n \in {} |-> ""]

defaultTypeResolver(sourceObject, knownTypes) ==
    LET hint == Get(PropsOf(sourceObject), "__type")
    IN  IF Truthy(hint) /\ hint.k = "string" /\ hint.s \in DOMAIN knownTypes
        THEN knownTypes[hint.s]
        ELSE ""

\* The type resolver of the custom-hint tests:
\* sourceObject.type === 'sub-one' ? ConcreteOne : AnotherConcreteOne
staticTypeResolver(sourceObject) ==
    IF Get(PropsOf(sourceObject), "type") = Str("sub-one")
    THEN "ConcreteOne" ELSE "AnotherConcreteOne"

\* The type resolver of the second hierarchy of the custom-hint tests:
\* sourceObject.hint === 'first' ? ConcreteTwo : AnotherConcreteTwo
hintResolver(sourceObject) ==
    IF Get(PropsOf(sourceObject), "hint") = Str("first")
    THEN "ConcreteTwo" ELSE "AnotherConcreteTwo"

TypeResolver(resolver, sourceObject, knownTypes) ==
    CASE resolver = "staticType" -> staticTypeResolver(sourceObject)
      [] resolver = "hint" -> hintResolver(sourceObject)
      [] OTHER -> defaultTypeResolver(sourceObject, knownTypes)

\* Deserializer.deserializationStrategy
deserializationStrategy ==
    [c \in {"Number", "String", "Boolean"} |-> "deserializeDirectly"]
    @@ ("Date" :> "deserializeDate")
    @@ ("ArrayBuffer" :> "stringToArrayBuffer")
    @@ ("DataView" :> "stringToDataView")
    @@ ("Array" :> "convertAsArray")
    @@ ("Set" :> "convertAsSet")
    @@ ("Map" :> "convertAsMap")
    @@ [c \in {"Float32Array", "Float64Array"} |-> "convertAsFloatArray"]
    @@ [c \in {"Uint8Array", "Uint8ClampedArray", "Uint16Array", "Uint32Array"}
          |-> "convertAsUintArray"]

Des_retrievePreserveNull(deserializer, memberOptions) ==
    getOptionValue(mergeOptions(deserializer.options, memberOptions))

\* Deserializer.mergeKnownTypes: later maps win; when a name resolver is
\* set every type is put under the name the resolver gives it.
mergeKnownTypes(deserializer, first, second) ==
    LET ctors == {first[n] : n \in DOMAIN first} \cup {second[n] : n \in DOMAIN second}
    IN  IF deserializer.nameResolver = "unset" THEN second @@ first
        ELSE [name \in {nameof(ctor) : ctor \in ctors} |->
                CHOOSE ctor \in ctors : nameof(ctor) = name]

RECURSIVE createKnownTypesMap(_, _)
\* Deserializer.createKnownTypesMap over the known types in insertion order:
\* each under the name the name resolver gives it when one is set, else
\* under the name of its metadata or its own.
createKnownTypesMap(deserializer, knowTypes) ==
    IF knowTypes = <<>> THEN NoKnownTypes
    ELSE LET ctor == knowTypes[Len(knowTypes)]
             name(knownTypeMeta) ==
                IF deserializer.nameResolver # "unset" THEN nameof(ctor)
                ELSE IF knownTypeMeta.defined /\ knownTypeMeta.isExplicitlyMarked
                        /\ knownTypeMeta.name # ""
                THEN knownTypeMeta.name
                ELSE ctor
         IN  (name(getFromConstructor(ctor)) :> ctor)
             @@ createKnownTypesMap(deserializer, SubSeq(knowTypes, 1, Len(knowTypes) - 1))

makeTypeErrorMessage(expectedType, actualType, memberName) ==
    "Could not deserialize " \o memberName \o ": expected '" \o expectedType
    \o "', got '" \o actualType \o "'."

\* A deserializer that builds a bare object instead of an instance.
instantiateType_bare(ctor) == Obj("Object", <<>>)

\* new ctor(): the constructors of the classes of the run assign nothing when
\* called without arguments.
instantiateType(ctor) == Obj(ctor, <<>>)

deserializeDirectly(sourceObject, typeDescriptor, objectName) ==
    IF CtorOf(sourceObject) # typeDescriptor.ctor
    THEN Throw(TypeError(makeTypeErrorMessage(nameof(typeDescriptor.ctor),
                                              nameof(CtorOf(sourceObject)), objectName)))
    ELSE Ret(sourceObject)

\* srcTypeNameForDebug
srcTypeNameForDebug(sourceObject) ==
    IF Truthy(sourceObject) THEN nameof(CtorOf(sourceObject)) ELSE "undefined"

throwTypeMismatchError(targetType, expectedSourceType, actualSourceType, memberName) ==
    Throw(TypeError("Could not deserialize " \o memberName \o " as " \o targetType
                    \o ": expected " \o expectedSourceType \o ", got "
                    \o actualSourceType \o "."))

\* The instants whose ISO text differs from that of the epoch in the last
\* digit only.
IsoInstants == -9..9

\* Date.prototype.toISOString for the instants next to the epoch.
toISOString(t) ==
    IF t >= 0 THEN "1970-01-01T00:00:00.00" \o ToString(t) \o "Z"
    ELSE "1969-12-31T23:59:59.99" \o ToString(10 + t) \o "Z"

\* The ISO text without 'Z', which new Date reads as local time; the time
\* zone is UTC, as in DateToString.
localISOString(t) ==
    IF t >= 0 THEN "1970-01-01T00:00:00.00" \o ToString(t)
    ELSE "1969-12-31T23:59:59.99" \o ToString(10 + t)

\* The whole seconds next to the epoch, in milliseconds.
WholeSeconds == {-1000, 0, 1000}

\* new Date(value) for a number and for a text: the texts of the runs are ISO
\* texts of the instants next to the epoch, texts Date.prototype.toString
\* gave (of whole seconds), and texts that are no date.
newDate(value) ==
    IF value.k = "number" THEN DateV(value.n)
    ELSE IF \E t \in IsoInstants : value.s \in {toISOString(t), localISOString(t)}
    THEN DateV(CHOOSE t \in IsoInstants : value.s \in {toISOString(t), localISOString(t)})
    ELSE IF \E t \in WholeSeconds : DateToString(DateV(t)) = value.s
    THEN DateV(CHOOSE t \in WholeSeconds : DateToString(DateV(t)) = value.s)
    ELSE InvalidDate

deserializeDate(sourceObject, typeDescriptor, memberName) ==
    IF sourceObject.k = "string" \/ (sourceObject.k = "number" /\ sourceObject.n > 0)
    THEN Ret(newDate(sourceObject))
    ELSE IF isInstanceOf(sourceObject, "Date") THEN Ret(sourceObject)
    ELSE throwTypeMismatchError("Date", "an ISO-8601 string",
                                srcTypeNameForDebug(sourceObject), memberName)

RECURSIVE CodeSeqs(_)
\* The sequences of at most n character codes.
CodeSeqs(n) ==
    IF n = 0 THEN {<<>>}
    ELSE CodeSeqs(n - 1) \cup {Append(q, c) : q \in CodeSeqs(n - 1), c \in CharCodes}

\* input.charCodeAt(i) for every i: the texts held in buffers are made of at
\* most MaxLen characters.
charCodes(input) == CHOOSE q \in CodeSeqs(MaxLen) : joinChars(q) = input

\* createArrayBufferFromString: two bytes for each character, the low byte
\* first.
createArrayBufferFromString(input) ==
    LET units == charCodes(input)
    IN  BufferV([i \in 1..(2 * Len(units)) |->
                   IF i % 2 = 1 THEN units[(i + 1) \div 2] % 256
                   ELSE units[i \div 2] \div 256])

stringToArrayBuffer(sourceObject, typeDescriptor, memberName) ==
    IF sourceObject.k # "string"
    THEN throwTypeMismatchError("ArrayBuffer", "a string source",
                                srcTypeNameForDebug(sourceObject), memberName)
    ELSE Ret(createArrayBufferFromString(sourceObject.s))

stringToDataView(sourceObject, typeDescriptor, memberName) ==
    IF sourceObject.k # "string"
    THEN throwTypeMismatchError("DataView", "a string source",
                                srcTypeNameForDebug(sourceObject), memberName)
    ELSE Ret(DataViewV(createArrayBufferFromString(sourceObject.s).bytes))

\* Number(value): the texts of the runs are no numerals and the objects of
\* the runs are no numbers, so both give NaN.
ToNumber(value) ==
    CASE value.k = "number" -> [nan |-> FALSE, n |-> value.n]
      [] value.k = "null" -> [nan |-> FALSE, n |-> 0]
      [] value.k = "boolean" -> [nan |-> FALSE, n |-> IF value.b THEN 1 ELSE 0]
      [] value.k = "string" -> [nan |-> value.s # "", n |-> 0]
      [] OTHER -> [nan |-> TRUE, n |-> 0]

isNaN(value) == ToNumber(value).nan

\* The element a fixed-width array of unsigned integers stores for an
\* integer: modulo its width, or clamped; the elements given to a
\* Uint32Array in the runs are not negative.
ToUint(ctor, n) ==
    CASE ctor = "Uint8Array" -> n % 256
      [] ctor = "Uint16Array" -> n % 65536
      [] ctor = "Uint8ClampedArray" -> IF n < 0 THEN 0 ELSE IF n > 255 THEN 255 ELSE n
      [] ctor = "Uint32Array" -> n

convertAsFloatArray(sourceObject, typeDescriptor, memberName) ==
    IF IsArray(sourceObject) /\ \A i \in 1..Len(sourceObject.e) : ~isNaN(sourceObject.e[i])
    THEN Ret(TypedArrayV(typeDescriptor.ctor,
                         [i \in 1..Len(sourceObject.e) |->
                            Num(ToNumber(sourceObject.e[i]).n)]))
    ELSE throwTypeMismatchError(nameof(typeDescriptor.ctor), "a numeric source array",
                                srcTypeNameForDebug(sourceObject), memberName)

\* The elements are mapped with ~~value, which leaves the integers of the
\* runs as they are.
convertAsUintArray(sourceObject, typeDescriptor, memberName) ==
    IF IsArray(sourceObject) /\ \A i \in 1..Len(sourceObject.e) : ~isNaN(sourceObject.e[i])
    THEN Ret(TypedArrayV(typeDescriptor.ctor,
                         [i \in 1..Len(sourceObject.e) |->
                            Num(ToUint(typeDescriptor.ctor,
                                       ToNumber(sourceObject.e[i]).n))]))
    ELSE throwTypeMismatchError(nameof(typeDescriptor.ctor), "a numeric source array",
                                srcTypeNameForDebug(sourceObject), memberName)

\* Set.prototype.add and Map.prototype.set compare primitives by value and
\* objects by identity; every object the deserializer adds is a new one.
SameValueZero(a, b) == a = b /\ a.k # "object"

SetAdd(elements, value) ==
    IF \E i \in 1..Len(elements) : SameValueZero(elements[i], value)
    THEN elements ELSE Append(elements, value)

MapSet(entries, key, value) ==
    IF \E i \in 1..Len(entries) : SameValueZero(entries[i][1], key)
    THEN [i \in 1..Len(entries) |->
            IF SameValueZero(entries[i][1], key) THEN <<key, value>> ELSE entries[i]]
    ELSE Append(entries, <<key, value>>)

RECURSIVE Des_convertSingleValue(_, _, _, _, _, _)
RECURSIVE Des_convertAsObject(_, _, _, _, _)
RECURSIVE Des_dataMembers(_, _, _, _, _, _, _)
RECURSIVE Des_untyped(_, _, _, _, _)
RECURSIVE Des_convertAsArray(_, _, _, _, _, _)
RECURSIVE Des_mapElements(_, _, _, _, _, _, _)
RECURSIVE Des_convertAsSet(_, _, _, _, _, _)
RECURSIVE Des_setElements(_, _, _, _, _, _, _, _)
RECURSIVE Des_convertAsMap(_, _, _, _, _, _)
RECURSIVE Des_mapEntry(_, _, _, _, _, _, _, _)
RECURSIVE Des_mapEntries(_, _, _, _, _, _, _)

Des_convertSingleValue(deserializer, sourceObject, typeDescriptor, knownTypes, memberName, memberOptions) ==
  After(<<Converting(memberName, sourceObject)>>,
    IF Des_retrievePreserveNull(deserializer, memberOptions) /\ sourceObject = Null
    THEN Ret(Null)
    ELSE IF ~isValueDefined(sourceObject) THEN Ret(Undef)
    ELSE IF typeDescriptor.ctor \in DOMAIN deserializationStrategy
    THEN CASE deserializationStrategy[typeDescriptor.ctor] = "deserializeDirectly" ->
                deserializeDirectly(sourceObject, typeDescriptor, memberName)
           [] deserializationStrategy[typeDescriptor.ctor] = "deserializeDate" ->
                deserializeDate(sourceObject, typeDescriptor, memberName)
           [] deserializationStrategy[typeDescriptor.ctor] = "stringToArrayBuffer" ->
                stringToArrayBuffer(sourceObject, typeDescriptor, memberName)
           [] deserializationStrategy[typeDescriptor.ctor] = "stringToDataView" ->
                stringToDataView(sourceObject, typeDescriptor, memberName)
           [] deserializationStrategy[typeDescriptor.ctor] = "convertAsFloatArray" ->
                convertAsFloatArray(sourceObject, typeDescriptor, memberName)
           [] deserializationStrategy[typeDescriptor.ctor] = "convertAsUintArray" ->
                convertAsUintArray(sourceObject, typeDescriptor, memberName)
           [] deserializationStrategy[typeDescriptor.ctor] = "convertAsArray" ->
                Des_convertAsArray(deserializer, sourceObject, typeDescriptor, knownTypes,
                                   memberName, memberOptions)
           [] deserializationStrategy[typeDescriptor.ctor] = "convertAsSet" ->
                Des_convertAsSet(deserializer, sourceObject, typeDescriptor, knownTypes,
                                 memberName, memberOptions)
           [] deserializationStrategy[typeDescriptor.ctor] = "convertAsMap" ->
                Des_convertAsMap(deserializer, sourceObject, typeDescriptor, knownTypes,
                                 memberName, memberOptions)
    ELSE IF sourceObject.k = "object"
    THEN Des_convertAsObject(deserializer, sourceObject, typeDescriptor, knownTypes,
                             memberName)
    ELSE Report(deserializer.errorHandler,
                TypeError("Could not deserialize '" \o memberName
                          \o "': don't know how to deserialize this type'.")))

\* A loop that throws when a required member is missing.
Des_dataMembers_fatal(deserializer, sourceObject, sourceMetadata, knownTypeConstructors, classOptions, i, acc) ==
    IF i > Len(sourceMetadata.dataMembers) THEN acc
    ELSE
      LET objMemberMetadata == sourceMetadata.dataMembers[i]
          propKey == objMemberMetadata.name
          objMemberValue == Get(PropsOf(sourceObject), propKey)
          objMemberDebugName == nameof(sourceMetadata.classType) \o "." \o propKey
          objMemberOptions == mergeOptions(classOptions, objMemberMetadata.options)
          assign(revivedValue, kept) ==
            LET missing ==
                  IF ~kept /\ objMemberMetadata.isRequired
                  THEN Throw(TypeError("Missing required member '" \o objMemberDebugName
                                       \o "'."))
                  ELSE Ret(Undef)
            IN
              IF Raised(revivedValue) THEN After(acc.log, revivedValue)
              ELSE IF Raised(missing) THEN After(acc.log \o revivedValue.log, missing)
              ELSE Des_dataMembers(deserializer, sourceObject, sourceMetadata,
                     knownTypeConstructors, classOptions, i + 1,
                     [v |-> IF kept THEN Put(acc.v, objMemberMetadata.key, revivedValue.v)
                            ELSE acc.v,
                      log |-> acc.log \o revivedValue.log \o missing.log,
                      exc |-> NoExc])
          revive(revivedValue) ==
            assign(revivedValue,
                   \/ isValueDefined(revivedValue.v)
                   \/ (Des_retrievePreserveNull(deserializer, objMemberOptions)
                       /\ revivedValue.v = Null))
      IN
        revive(IF objMemberMetadata.deserializer # "none"
               THEN Ret(objMemberValue)
               ELSE IF objMemberMetadata.type # NoType
               THEN Des_convertSingleValue(deserializer, objMemberValue,
                       objMemberMetadata.type, knownTypeConstructors, objMemberDebugName,
                       objMemberOptions)
               ELSE Throw(TypeError("Cannot deserialize " \o objMemberDebugName
                       \o " there is no constructor nor deserialization function to use.")))

\* The loop over sourceMetadata.dataMembers, from member i on; acc holds the
\* object with the deserialized properties so far and the events so far.
Des_dataMembers(deserializer, sourceObject, sourceMetadata, knownTypeConstructors, classOptions, i, acc) ==
    IF i > Len(sourceMetadata.dataMembers) THEN acc
    ELSE
      LET objMemberMetadata == sourceMetadata.dataMembers[i]
          propKey == objMemberMetadata.name
          objMemberValue == Get(PropsOf(sourceObject), propKey)
          objMemberDebugName == nameof(sourceMetadata.classType) \o "." \o propKey
          objMemberOptions == mergeOptions(classOptions, objMemberMetadata.options)
          assign(revivedValue, kept) ==
            LET missing ==
                  IF ~kept /\ objMemberMetadata.isRequired
                  THEN Report(deserializer.errorHandler,
                              TypeError("Missing required member '" \o objMemberDebugName
                                        \o "'."))
                  ELSE Ret(Undef)
            IN
              IF Raised(revivedValue) THEN After(acc.log, revivedValue)
              ELSE IF Raised(missing) THEN After(acc.log \o revivedValue.log, missing)
              ELSE Des_dataMembers(deserializer, sourceObject, sourceMetadata,
                     knownTypeConstructors, classOptions, i + 1,
                     [v |-> IF kept THEN Put(acc.v, objMemberMetadata.key, revivedValue.v)
                            ELSE acc.v,
                      log |-> acc.log \o revivedValue.log \o missing.log,
                      exc |-> NoExc])
          revive(revivedValue) ==
            assign(revivedValue,
                   \/ isValueDefined(revivedValue.v)
                   \/ (Des_retrievePreserveNull(deserializer, objMemberOptions)
                       /\ revivedValue.v = Null))
      IN
        revive(IF objMemberMetadata.deserializer # "none"
               THEN Ret(objMemberValue)
               ELSE IF objMemberMetadata.type # NoType
               THEN Des_convertSingleValue(deserializer, objMemberValue,
                       objMemberMetadata.type, knownTypeConstructors, objMemberDebugName,
                       objMemberOptions)
               ELSE Throw(TypeError("Cannot deserialize " \o objMemberDebugName
                       \o " there is no constructor nor deserialization function to use.")))

\* The untyped loop Object.keys(sourceObject).forEach(...), over the
\* properties not yet converted.
Des_untyped(deserializer, props, knownTypes, memberName, acc) ==
    IF props = <<>> THEN acc
    ELSE
      LET sourceKey == Head(props)[1]
          value == Head(props)[2]
          assign(r) ==
            IF Raised(r) THEN After(acc.log, r)
            ELSE Des_untyped(deserializer, Tail(props), knownTypes, memberName,
                             [v |-> Put(acc.v, sourceKey, r.v), log |-> acc.log \o r.log,
                              exc |-> NoExc])
      IN  assign(IF ~isValueDefined(value)
                 THEN Throw(TypeError("Cannot read properties of " \o value.k
                                      \o " (reading 'constructor')"))
                 ELSE Des_convertSingleValue(deserializer, value, Concrete(CtorOf(value)),
                                             knownTypes, sourceKey, NoOptions))

\* A resolution that looks the hint up and then keeps the expected type.
Des_resolve_keepExpected(deserializer, sourceObject, typeDescriptor, knownTypes) ==
    LET expectedMetadata == getFromConstructor(typeDescriptor.ctor)
        merged == IF expectedMetadata.defined
                  THEN mergeKnownTypes(deserializer, knownTypes,
                                       createKnownTypesMap(deserializer, expectedMetadata.knownTypes))
                  ELSE knownTypes
        typeResolver == IF expectedMetadata.defined /\ expectedMetadata.typeResolver # "none"
                        THEN expectedMetadata.typeResolver
                        ELSE deserializer.typeResolver
    IN  [expectedSelfType |-> typeDescriptor.ctor,
         sourceObjectMetadata |-> expectedMetadata,
         typeResolver |-> typeResolver,
         resolverKnownTypes |-> merged,
         typeFromTypeHint |-> TypeResolver(typeResolver, sourceObject, merged),
         knownTypeConstructors |-> merged]

\* The resolution of the type to deserialize into: the expected type, unless
\* the type hint names a subtype of it.
\* A resolution that takes whatever type the resolver names.
Des_resolve_anyHint(deserializer, sourceObject, typeDescriptor, knownTypes) ==
    LET expectedMetadata == getFromConstructor(typeDescriptor.ctor)
        merged == IF expectedMetadata.defined
                  THEN mergeKnownTypes(deserializer, knownTypes,
                                       createKnownTypesMap(deserializer, expectedMetadata.knownTypes))
                  ELSE knownTypes
        typeResolver == IF expectedMetadata.defined /\ expectedMetadata.typeResolver # "none"
                        THEN expectedMetadata.typeResolver
                        ELSE deserializer.typeResolver
        typeFromTypeHint == TypeResolver(typeResolver, sourceObject, merged)
        valid == typeFromTypeHint # ""
        hintMetadata == getFromConstructor(typeFromTypeHint)
    IN  [expectedSelfType |-> IF valid THEN typeFromTypeHint ELSE typeDescriptor.ctor,
         sourceObjectMetadata |-> IF valid THEN hintMetadata ELSE expectedMetadata,
         typeResolver |-> typeResolver,
         resolverKnownTypes |-> merged,
         typeFromTypeHint |-> typeFromTypeHint,
         knownTypeConstructors |->
            IF valid /\ hintMetadata.defined
            THEN mergeKnownTypes(deserializer, merged, createKnownTypesMap(deserializer, hintMetadata.knownTypes))
            ELSE merged]

\* A resolution that always calls the resolver of the deserializer.
Des_resolve_globalResolver(deserializer, sourceObject, typeDescriptor, knownTypes) ==
    LET expectedMetadata == getFromConstructor(typeDescriptor.ctor)
        merged == IF expectedMetadata.defined
                  THEN mergeKnownTypes(deserializer, knownTypes,
                                       createKnownTypesMap(deserializer, expectedMetadata.knownTypes))
                  ELSE knownTypes
        typeResolver == deserializer.typeResolver
        typeFromTypeHint == TypeResolver(typeResolver, sourceObject, merged)
        valid == typeFromTypeHint # "" /\ isSubtypeOf(typeFromTypeHint, typeDescriptor.ctor)
        hintMetadata == getFromConstructor(typeFromTypeHint)
    IN  [expectedSelfType |-> IF valid THEN typeFromTypeHint ELSE typeDescriptor.ctor,
         sourceObjectMetadata |-> IF valid THEN hintMetadata ELSE expectedMetadata,
         typeResolver |-> typeResolver,
         resolverKnownTypes |-> merged,
         typeFromTypeHint |-> typeFromTypeHint,
         knownTypeConstructors |->
            IF valid /\ hintMetadata.defined
            THEN mergeKnownTypes(deserializer, merged, createKnownTypesMap(deserializer, hintMetadata.knownTypes))
            ELSE merged]

Des_resolve(deserializer, sourceObject, typeDescriptor, knownTypes) ==
    LET substitute(expectedMetadata, typeResolver, merged, typeFromTypeHint, hintMetadata) ==
          LET valid == typeFromTypeHint # ""
                       /\ isSubtypeOf(typeFromTypeHint, typeDescriptor.ctor)
          IN  [expectedSelfType |-> IF valid THEN typeFromTypeHint ELSE typeDescriptor.ctor,
               sourceObjectMetadata |-> IF valid THEN hintMetadata ELSE expectedMetadata,
               typeResolver |-> typeResolver,
               resolverKnownTypes |-> merged,
               typeFromTypeHint |-> typeFromTypeHint,
               knownTypeConstructors |->
                  IF valid /\ hintMetadata.defined
                  THEN mergeKnownTypes(deserializer, merged, createKnownTypesMap(deserializer, hintMetadata.knownTypes))
                  ELSE merged]
        hinted(expectedMetadata, typeResolver, merged, typeFromTypeHint) ==
          substitute(expectedMetadata, typeResolver, merged, typeFromTypeHint,
                     getFromConstructor(typeFromTypeHint))
        resolve(expectedMetadata, typeResolver, merged) ==
          hinted(expectedMetadata, typeResolver, merged,
                 TypeResolver(typeResolver, sourceObject, merged))
        expected(expectedMetadata) ==
          resolve(expectedMetadata,
                  IF expectedMetadata.defined /\ expectedMetadata.typeResolver # "none"
                  THEN expectedMetadata.typeResolver
                  ELSE deserializer.typeResolver,
                  IF expectedMetadata.defined
                  THEN mergeKnownTypes(deserializer, knownTypes,
                                       createKnownTypesMap(deserializer, expectedMetadata.knownTypes))
                  ELSE knownTypes)
    IN  expected(getFromConstructor(typeDescriptor.ctor))

\* The initializer callback of Made: it reads the mode of the source object
\* and throws, returns null, returns an object of another class, returns
\* an instance of the subclass MadeChild, or returns an instance of Made.
byMode(properties, sourceObject) ==
    CASE Get(PropsOf(sourceObject), "mode") = Str("throw") ->
           Throw([e |-> "Error", msg |-> "initializer failed"])
      [] Get(PropsOf(sourceObject), "mode") = Str("null") -> Ret(Null)
      [] Get(PropsOf(sourceObject), "mode") = Str("wrong") -> Ret(Obj("Simple", <<>>))
      [] Get(PropsOf(sourceObject), "mode") = Str("sub") ->
           Ret(Obj("MadeChild", <<(<<"made", Bool(TRUE)>>)>>))
      [] OTHER -> Ret(Obj("Made", <<(<<"made", Bool(TRUE)>>)>>))

InitializerCallback(callback, properties, sourceObject) ==
    After(<<Initializing(callback, properties, sourceObject)>>,
          byMode(properties, sourceObject))

\* A target object that is taken from the initializer callback without a
\* look at its class.
Des_instantiate_unchecked(deserializer, sourceObjectMetadata, expectedSelfType, properties, sourceObject, memberName) ==
    IF sourceObjectMetadata.initializerCallback = "none"
    THEN Ret(instantiateType(expectedSelfType))
    ELSE
      LET check(t) ==
            IF Raised(t) THEN After(t.log, Report(deserializer.errorHandler, t.exc))
            ELSE IF ~Truthy(t.v)
            THEN After(t.log,
                   Report(deserializer.errorHandler,
                          TypeError("Cannot deserialize " \o memberName
                             \o ": 'initializer' function returned undefined/null, but '"
                             \o nameof(sourceObjectMetadata.classType)
                             \o "' was expected.")))
            ELSE t
      IN  check(InitializerCallback(sourceObjectMetadata.initializerCallback, properties,
                                    sourceObject))

\* The target object: what the initializer callback returns, when the
\* metadata has one and it returns an instance of the class, else a new
\* instance.  A callback that fails leaves undefined, after the error was
\* given to the error handler.
Des_instantiate(deserializer, sourceObjectMetadata, expectedSelfType, properties, sourceObject, memberName) ==
    IF sourceObjectMetadata.initializerCallback = "none"
    THEN Ret(instantiateType(expectedSelfType))
    ELSE
      LET check(t) ==
            IF Raised(t) THEN After(t.log, Report(deserializer.errorHandler, t.exc))
            ELSE IF ~Truthy(t.v)
            THEN After(t.log,
                   Report(deserializer.errorHandler,
                          TypeError("Cannot deserialize " \o memberName
                             \o ": 'initializer' function returned undefined/null, but '"
                             \o nameof(sourceObjectMetadata.classType)
                             \o "' was expected.")))
            ELSE IF ~isInstanceOf(t.v, sourceObjectMetadata.classType)
            THEN After(t.log,
                   Report(deserializer.errorHandler,
                          TypeError("Cannot deserialize " \o memberName
                             \o ":'initializer' returned '" \o nameof(CtorOf(t.v))
                             \o "', but '" \o nameof(sourceObjectMetadata.classType)
                             \o "' was expected, and '" \o nameof(CtorOf(t.v))
                             \o "' is not a subtype of '"
                             \o nameof(sourceObjectMetadata.classType) \o "'")))
            ELSE t
      IN  check(InitializerCallback(sourceObjectMetadata.initializerCallback, properties,
                                    sourceObject))

\* A call that looks for the static method first.
Des_onDeserialized_staticFirst(deserializer, sourceObjectMetadata, targetObject) ==
    IF sourceObjectMetadata.onDeserializedMethodName = "" THEN Ret(targetObject)
    ELSE IF HasStatic(targetObject, sourceObjectMetadata.onDeserializedMethodName)
    THEN [v |-> targetObject,
          log |-> <<Hook(sourceObjectMetadata.onDeserializedMethodName, "static",
                         targetObject)>>,
          exc |-> NoExc]
    ELSE IF HasMethod(targetObject, sourceObjectMetadata.onDeserializedMethodName)
    THEN [v |-> targetObject,
          log |-> <<Hook(sourceObjectMetadata.onDeserializedMethodName, "instance",
                         targetObject)>>,
          exc |-> NoExc]
    ELSE
      LET returned(reported) ==
            IF Raised(reported) THEN reported ELSE [reported EXCEPT !.v = targetObject]
      IN  returned(Report(deserializer.errorHandler,
                          TypeError("onDeserialized callback '"
                                    \o nameof(sourceObjectMetadata.classType) \o "."
                                    \o sourceObjectMetadata.onDeserializedMethodName
                                    \o "' is not a method.")))

\* The call of the onDeserialized method of the class, if it names one; the
\* target object is returned.
Des_onDeserialized(deserializer, sourceObjectMetadata, targetObject) ==
    IF sourceObjectMetadata.onDeserializedMethodName = "" THEN Ret(targetObject)
    ELSE IF HasMethod(targetObject, sourceObjectMetadata.onDeserializedMethodName)
    THEN [v |-> targetObject,
          log |-> <<Hook(sourceObjectMetadata.onDeserializedMethodName, "instance",
                         targetObject)>>,
          exc |-> NoExc]
    ELSE IF HasStatic(targetObject, sourceObjectMetadata.onDeserializedMethodName)
    THEN [v |-> targetObject,
          log |-> <<Hook(sourceObjectMetadata.onDeserializedMethodName, "static",
                         targetObject)>>,
          exc |-> NoExc]
    ELSE
      LET returned(reported) ==
            IF Raised(reported) THEN reported ELSE [reported EXCEPT !.v = targetObject]
      IN  returned(Report(deserializer.errorHandler,
                          TypeError("onDeserialized callback '"
                                    \o nameof(sourceObjectMetadata.classType) \o "."
                                    \o sourceObjectMetadata.onDeserializedMethodName
                                    \o "' is not a method.")))

Des_convertAsObject(deserializer, sourceObject, typeDescriptor, knownTypes, memberName) ==
    IF sourceObject.k # "object"
    THEN Report(deserializer.errorHandler,
                TypeError("Cannot deserialize " \o memberName
                          \o ": 'sourceObject' must be a defined object."))
    ELSE IF typeDescriptor.ctor = NoCtor
    THEN \* JsonObjectMetadata.getFromConstructor reads the prototype of undefined
         Throw(TypeError("Cannot read properties of undefined (reading 'prototype')"))
    ELSE
      LET assigned(sourceObjectMetadata, properties, target) ==
            IF Raised(target) \/ target.v = Undef THEN target
            ELSE After(target.log,
                       Des_onDeserialized(deserializer, sourceObjectMetadata,
                                          Obj(target.v.ctor,
                                              PutAll(target.v.f, properties))))
          marked(sourceObjectMetadata, expectedSelfType, props) ==
            IF Raised(props) THEN props
            ELSE After(props.log,
                       assigned(sourceObjectMetadata, props.v,
                                Des_instantiate(deserializer, sourceObjectMetadata,
                                                expectedSelfType, props.v, sourceObject,
                                                memberName)))
          unmarked(untyped) ==
            IF Raised(untyped) THEN untyped
            ELSE [untyped EXCEPT !.v = Obj("Object", untyped.v)]
          convert(res) ==
           After(<<Resolving(res.typeResolver, sourceObject, typeDescriptor.ctor,
                             res.typeFromTypeHint, knownTypes, res.resolverKnownTypes,
                             IF res.sourceObjectMetadata.defined
                                /\ res.sourceObjectMetadata.isExplicitlyMarked
                             THEN res.knownTypeConstructors ELSE knownTypes)>>,
            IF res.sourceObjectMetadata.defined /\ res.sourceObjectMetadata.isExplicitlyMarked
            THEN marked(res.sourceObjectMetadata, res.expectedSelfType,
                        Des_dataMembers(deserializer, sourceObject, res.sourceObjectMetadata,
                           res.knownTypeConstructors,
                           mergeOptions(deserializer.options,
                                        res.sourceObjectMetadata.options),
                           1, Ret(<<>>)))
            ELSE unmarked(Des_untyped(deserializer, PropsOf(sourceObject), knownTypes,
                                      memberName, Ret(<<>>))))
      IN  convert(Des_resolve(deserializer, sourceObject, typeDescriptor, knownTypes))

\* The callback of sourceObject.map(...) in convertAsArray, over the elements
\* not yet converted: an element whose conversion throws is reported and
\* replaced by undefined.
RECURSIVE Des_mapElements_skip(_, _, _, _, _, _, _)
\* A loop that leaves out the element whose conversion threw.
Des_mapElements_skip(deserializer, elements, typeDescriptor, knownTypes, memberName, memberOptions, acc) ==
    IF elements = <<>> THEN acc
    ELSE
      LET r == Des_convertSingleValue(deserializer, Head(elements),
                  typeDescriptor.elementType, knownTypes, memberName \o "[]",
                  memberOptions)
          caught == Report(deserializer.errorHandler, r.exc)
      IN
        IF ~Raised(r)
        THEN Des_mapElements_skip(deserializer, Tail(elements), typeDescriptor,
                                  knownTypes, memberName, memberOptions,
                                  [v |-> Append(acc.v, r.v), log |-> acc.log \o r.log,
                                   exc |-> NoExc])
        ELSE IF Raised(caught) THEN After(acc.log \o r.log, caught)
        ELSE Des_mapElements_skip(deserializer, Tail(elements), typeDescriptor,
                                  knownTypes, memberName, memberOptions,
                                  [v |-> acc.v,
                                   log |-> acc.log \o r.log \o caught.log,
                                   exc |-> NoExc])

RECURSIVE Des_mapElements_resume(_, _, _, _, _, _, _)
\* A loop that goes on to the next element when the error handler threw.
Des_mapElements_resume(deserializer, elements, typeDescriptor, knownTypes, memberName, memberOptions, acc) ==
    IF elements = <<>> THEN acc
    ELSE
      LET r == Des_convertSingleValue(deserializer, Head(elements),
                  typeDescriptor.elementType, knownTypes, memberName \o "[]",
                  memberOptions)
          caught == Report(deserializer.errorHandler, r.exc)
      IN
        IF ~Raised(r)
        THEN Des_mapElements_resume(deserializer, Tail(elements), typeDescriptor,
                                    knownTypes, memberName, memberOptions,
                                    [v |-> Append(acc.v, r.v), log |-> acc.log \o r.log,
                                     exc |-> NoExc])
        ELSE Des_mapElements_resume(deserializer, Tail(elements), typeDescriptor,
                                    knownTypes, memberName, memberOptions,
                                    [v |-> Append(acc.v, Undef),
                                     log |-> acc.log \o r.log \o caught.log,
                                     exc |-> NoExc])

RECURSIVE Des_mapElements_sameDimension(_, _, _, _, _, _, _)
\* A loop that converts each element against the descriptor of the array
\* instead of the descriptor of its elements.
Des_mapElements_sameDimension(deserializer, elements, typeDescriptor, knownTypes, memberName, memberOptions, acc) ==
    IF elements = <<>> THEN acc
    ELSE
      LET r == Des_convertSingleValue(deserializer, Head(elements),
                  IF typeDescriptor.elementType.kind = "array"
                  THEN typeDescriptor ELSE typeDescriptor.elementType,
                  knownTypes, memberName \o "[]", memberOptions)
          caught == Report(deserializer.errorHandler, r.exc)
      IN
        IF ~Raised(r)
        THEN Des_mapElements_sameDimension(deserializer, Tail(elements), typeDescriptor,
                                  knownTypes, memberName, memberOptions,
                                  [v |-> Append(acc.v, r.v), log |-> acc.log \o r.log,
                                   exc |-> NoExc])
        ELSE IF Raised(caught) THEN After(acc.log \o r.log, caught)
        ELSE Des_mapElements_sameDimension(deserializer, Tail(elements), typeDescriptor,
                                  knownTypes, memberName, memberOptions,
                                  [v |-> Append(acc.v, Undef),
                                   log |-> acc.log \o r.log \o caught.log,
                                   exc |-> NoExc])

Des_mapElements(deserializer, elements, typeDescriptor, knownTypes, memberName, memberOptions, acc) ==
    IF elements = <<>> THEN acc
    ELSE
      LET element(r) ==
            LET caught == Report(deserializer.errorHandler, r.exc)
            IN
              IF ~Raised(r)
              THEN Des_mapElements(deserializer, Tail(elements), typeDescriptor, knownTypes,
                                   memberName, memberOptions,
                                   [v |-> Append(acc.v, r.v), log |-> acc.log \o r.log,
                                    exc |-> NoExc])
              ELSE IF Raised(caught) THEN After(acc.log \o r.log, caught)
              ELSE Des_mapElements(deserializer, Tail(elements), typeDescriptor, knownTypes,
                                   memberName, memberOptions,
                                   [v |-> Append(acc.v, Undef),
                                    log |-> acc.log \o r.log \o caught.log,
                                    exc |-> NoExc])
      IN  element(Des_convertSingleValue(deserializer, Head(elements),
                     typeDescriptor.elementType, knownTypes, memberName \o "[]",
                     memberOptions))

Des_convertAsArray(deserializer, sourceObject, typeDescriptor, knownTypes, memberName, memberOptions) ==
    IF typeDescriptor.kind # "array"
    THEN Throw(TypeError("Could not deserialize " \o memberName
                         \o " as Array: incorrect TypeDescriptor detected, please use"
                         \o " proper annotation or function for this type"))
    ELSE IF ~IsArray(sourceObject)
    THEN [Report(deserializer.errorHandler,
                 TypeError(makeTypeErrorMessage("Array", nameof(CtorOf(sourceObject)),
                                                memberName)))
          EXCEPT !.v = Arr(<<>>)]
    ELSE IF typeDescriptor.elementType = NoType
    THEN [Report(deserializer.errorHandler,
                 TypeError("Could not deserialize " \o memberName
                           \o " as Array: missing constructor reference of Array elements."))
          EXCEPT !.v = Arr(<<>>)]
    ELSE
      LET array(r) == IF Raised(r) THEN [r EXCEPT !.v = Undef] ELSE [r EXCEPT !.v = Arr(r.v)]
      IN  array(Des_mapElements(deserializer, sourceObject.e, typeDescriptor, knownTypes,
                                memberName, memberOptions, Ret(<<>>)))

RECURSIVE Des_setElements_resume(_, _, _, _, _, _, _, _)
\* A loop that goes on to the next element when the error handler threw.
Des_setElements_resume(deserializer, elements, i, typeDescriptor, knownTypes, memberName, memberOptions, acc) ==
    IF i > Len(elements) THEN acc
    ELSE
      LET r == Des_convertSingleValue(deserializer, elements[i],
                  typeDescriptor.elementType, knownTypes,
                  memberName \o "[" \o ToString(i - 1) \o "]", memberOptions)
          caught == Report(deserializer.errorHandler, r.exc)
      IN
        IF ~Raised(r)
        THEN Des_setElements_resume(deserializer, elements, i + 1, typeDescriptor,
                                    knownTypes, memberName, memberOptions,
                                    [v |-> SetAdd(acc.v, r.v), log |-> acc.log \o r.log,
                                     exc |-> NoExc])
        ELSE Des_setElements_resume(deserializer, elements, i + 1, typeDescriptor,
                                    knownTypes, memberName, memberOptions,
                                    [v |-> acc.v, log |-> acc.log \o r.log \o caught.log,
                                     exc |-> NoExc])

\* The callback of sourceObject.forEach(...) in convertAsSet, from element i
\* on: an element whose conversion throws is reported and skipped.
Des_setElements(deserializer, elements, i, typeDescriptor, knownTypes, memberName, memberOptions, acc) ==
    IF i > Len(elements) THEN acc
    ELSE
      LET element(r) ==
            LET caught == Report(deserializer.errorHandler, r.exc)
            IN
              IF ~Raised(r)
              THEN Des_setElements(deserializer, elements, i + 1, typeDescriptor, knownTypes,
                                   memberName, memberOptions,
                                   [v |-> SetAdd(acc.v, r.v), log |-> acc.log \o r.log,
                                    exc |-> NoExc])
              ELSE IF Raised(caught) THEN After(acc.log \o r.log, caught)
              ELSE Des_setElements(deserializer, elements, i + 1, typeDescriptor, knownTypes,
                                   memberName, memberOptions,
                                   [v |-> acc.v, log |-> acc.log \o r.log \o caught.log,
                                    exc |-> NoExc])
      IN  element(Des_convertSingleValue(deserializer, elements[i],
                     typeDescriptor.elementType, knownTypes,
                     memberName \o "[" \o ToString(i - 1) \o "]", memberOptions))

Des_convertAsSet(deserializer, sourceObject, typeDescriptor, knownTypes, memberName, memberOptions) ==
    IF typeDescriptor.kind # "set"
    THEN Throw(TypeError("Could not deserialize " \o memberName
                         \o " as Set: incorrect TypeDescriptor detected, please use"
                         \o " proper annotation or function for this type"))
    ELSE IF ~IsArray(sourceObject)
    THEN [Report(deserializer.errorHandler,
                 TypeError(makeTypeErrorMessage("Array", nameof(CtorOf(sourceObject)),
                                                memberName)))
          EXCEPT !.v = SetV(<<>>)]
    ELSE IF typeDescriptor.elementType = NoType
    THEN [Report(deserializer.errorHandler,
                 TypeError("Could not deserialize " \o memberName
                           \o " as Set: missing constructor reference of Set elements."))
          EXCEPT !.v = SetV(<<>>)]
    ELSE
      LET set(r) == IF Raised(r) THEN [r EXCEPT !.v = Undef] ELSE [r EXCEPT !.v = SetV(r.v)]
      IN  set(Des_setElements(deserializer, sourceObject.e, 1, typeDescriptor,
                              knownTypes, memberName, memberOptions, Ret(<<>>)))

isExpectedMapShape(source, expectedShape) ==
    \/ (expectedShape = "ARRAY" /\ IsArray(source))
    \/ (expectedShape = "OBJECT" /\ source.k = "object")

\* A try block that leaves out the entries whose value is null or undefined
\* as well.
Des_mapEntry_definedValues(deserializer, rawKey, rawValue, typeDescriptor, knownTypes, memberName, memberOptions, entries) ==
    LET entry(key, value) ==
          IF Raised(key) THEN key
          ELSE IF ~isValueDefined(key.v) THEN [key EXCEPT !.v = entries]
          ELSE IF Raised(value) THEN After(key.log, value)
          ELSE [v |-> IF isValueDefined(value.v)
                      THEN MapSet(entries, key.v, value.v) ELSE entries,
                log |-> key.log \o value.log, exc |-> NoExc]
        keyed(key) ==
          entry(key,
                Des_convertSingleValue(deserializer, rawValue, typeDescriptor.valueType,
                   knownTypes, memberName \o "[" \o ToKey(key.v) \o "]", memberOptions))
    IN  keyed(Des_convertSingleValue(deserializer, rawKey, typeDescriptor.keyType,
                 knownTypes, memberName, memberOptions))

\* One entry of the source of convertAsMap: the body of the try block, given
\* the source key and the source value of the entry.
Des_mapEntry(deserializer, rawKey, rawValue, typeDescriptor, knownTypes, memberName, memberOptions, entries) ==
    LET entry(key, value) ==
          IF Raised(key) THEN key
          ELSE IF ~isValueDefined(key.v) THEN [key EXCEPT !.v = entries]
          ELSE IF Raised(value) THEN After(key.log, value)
          ELSE [v |-> MapSet(entries, key.v, value.v), log |-> key.log \o value.log,
                exc |-> NoExc]
        keyed(key) ==
          entry(key,
                Des_convertSingleValue(deserializer, rawValue, typeDescriptor.valueType,
                   knownTypes, memberName \o "[" \o ToKey(key.v) \o "]", memberOptions))
    IN  keyed(Des_convertSingleValue(deserializer, rawKey, typeDescriptor.keyType,
                 knownTypes, memberName, memberOptions))

\* The loops of convertAsMap over the entries of the source not yet
\* converted, each a <<source key, source value>>; an entry of the array
\* shape that has no properties to read is <<undefined, undefined>> with
\* broken set.
Des_mapEntries(deserializer, raw, typeDescriptor, knownTypes, memberName, memberOptions, acc) ==
    IF raw = <<>> THEN acc
    ELSE
      LET entry(r) ==
            LET caught == Report(deserializer.errorHandler, r.exc)
            IN
              IF ~Raised(r)
              THEN Des_mapEntries(deserializer, Tail(raw), typeDescriptor, knownTypes,
                                  memberName, memberOptions,
                                  [v |-> r.v, log |-> acc.log \o r.log, exc |-> NoExc])
              ELSE IF Raised(caught) THEN After(acc.log \o r.log, caught)
              ELSE Des_mapEntries(deserializer, Tail(raw), typeDescriptor, knownTypes,
                                  memberName, memberOptions,
                                  [v |-> acc.v, log |-> acc.log \o r.log \o caught.log,
                                   exc |-> NoExc])
      IN  entry(IF Head(raw).broken
                THEN Throw(TypeError("Cannot read properties of " \o Head(raw).element.k
                                     \o " (reading 'key')"))
                ELSE Des_mapEntry(deserializer, Head(raw).key, Head(raw).value,
                                  typeDescriptor, knownTypes, memberName, memberOptions,
                                  acc.v))

\* The entries convertAsMap reads from its source: Object.keys(sourceObject)
\* with sourceObject[key] in the object shape, element.key and element.value
\* of each element in the array shape.
Des_rawEntries(sourceObject, expectedShape) ==
    IF expectedShape = "OBJECT"
    THEN [i \in 1..Len(PropsOf(sourceObject)) |->
            [broken |-> FALSE, element |-> Undef,
             key |-> Str(PropsOf(sourceObject)[i][1]),
             value |-> PropsOf(sourceObject)[i][2]]]
    ELSE [i \in 1..Len(sourceObject.e) |->
            [broken |-> ~isValueDefined(sourceObject.e[i]),
             element |-> sourceObject.e[i],
             key |-> Get(PropsOf(sourceObject.e[i]), "key"),
             value |-> Get(PropsOf(sourceObject.e[i]), "value")]]

Des_convertAsMap(deserializer, sourceObject, typeDescriptor, knownTypes, memberName, memberOptions) ==
    IF typeDescriptor.kind # "map"
    THEN Throw(TypeError("Could not deserialize " \o memberName
                         \o " as Map: incorrect TypeDescriptor detected, please use"
                         \o " proper annotation or function for this type"))
    ELSE IF ~isExpectedMapShape(sourceObject, typeDescriptor.shape)
    THEN [Report(deserializer.errorHandler,
                 TypeError(makeTypeErrorMessage(
                    IF typeDescriptor.shape = "ARRAY" THEN "Array" ELSE "Object",
                    nameof(CtorOf(sourceObject)), memberName)))
          EXCEPT !.v = MapV(<<>>)]
    ELSE IF typeDescriptor.keyType = NoType
    THEN [Report(deserializer.errorHandler,
                 TypeError("Could not deserialize " \o memberName
                           \o " as Map: missing key constructor."))
          EXCEPT !.v = MapV(<<>>)]
    ELSE IF typeDescriptor.valueType = NoType
    THEN [Report(deserializer.errorHandler,
                 TypeError("Could not deserialize " \o memberName
                           \o " as Map: missing value constructor."))
          EXCEPT !.v = MapV(<<>>)]
    ELSE
      LET map(r) == IF Raised(r) THEN [r EXCEPT !.v = Undef] ELSE [r EXCEPT !.v = MapV(r.v)]
      IN  map(Des_mapEntries(deserializer, Des_rawEntries(sourceObject, typeDescriptor.shape),
                             typeDescriptor, knownTypes, memberName, memberOptions,
                             Ret(<<>>)))

----------------------------------------------------------------------------
(* The TypedJSON facade. *)

\* TypedJSON.config: the Serializer a TypedJSON instance hands its settings.
SerializerOf(config) ==
    [options |-> config.options, typeHintEmitter |-> config.typeHintEmitter,
     errorHandler |-> config.errorHandler]

\* TypedJSON.config: the Deserializer a TypedJSON instance hands its settings.
DeserializerOf(config) ==
    [options |-> config.options, typeResolver |-> config.typeResolver,
     errorHandler |-> config.errorHandler, nameResolver |-> "unset"]

\* An entry point without a catch block.
Caught_rethrow(errorHandler, r) ==
    (IF Raised(r) THEN [r EXCEPT !.v = Undef] ELSE r) @@ [engineExc |-> r.exc]

\* What an entry point returns: the result of the engine, with the error the
\* engine raised into the entry point's catch block (engineExc).
Caught(errorHandler, r) ==
    IF Raised(r)
    THEN [After(r.log, Report(errorHandler, r.exc)) EXCEPT !.v = Undef]
         @@ [engineExc |-> r.exc]
    ELSE r @@ [engineExc |-> NoExc]

\* What a call of the engine that nothing wraps leaves its caller with: the
\* result, or the error raised.
Uncaught(r) ==
    (IF Raised(r) THEN [r EXCEPT !.v = Undef] ELSE r) @@ [engineExc |-> r.exc]

\* A statement that returns the value once the call before it has returned.
Returning(value, r) == IF Raised(r) THEN r ELSE [r EXCEPT !.v = value]

NotRun == [v |-> Undef, log |-> <<>>, exc |-> NoExc, engineExc |-> NoExc]

\* TypedJSON.toPlainJson: the Serializer is given an object that holds the
\* root constructor as 'selfType' and has no 'ctor'.
toPlainJson(config, object, rootConstructor) ==
    Caught(config.errorHandler,
           Ser_convertSingleValue(SerializerOf(config), object,
                                  [kind |-> "none", ctor |-> NoCtor,
                                   selfType |-> rootConstructor],
                                  "object", NoOptions))

\* TypedJSON.toPlainArray: the Serializer has no method convertAsArray.
toPlainArray(config, object) ==
    Caught(config.errorHandler,
           Throw(TypeError("this.serializer.convertAsArray is not a function")))

\* TypedJSON.toPlainSet: the Serializer has no method convertAsSet.
toPlainSet(config, object) ==
    Caught(config.errorHandler,
           Throw(TypeError("this.serializer.convertAsSet is not a function")))

\* TypedJSON.toPlainMap: the Serializer has no method convertAsMap.
toPlainMap(config, object) ==
    Caught(config.errorHandler,
           Throw(TypeError("this.serializer.convertAsMap is not a function")))

RECURSIVE Join(_)
\* The texts of a sequence, separated by commas.
Join(texts) ==
    IF texts = <<>> THEN ""
    ELSE IF Len(texts) = 1 THEN texts[1]
    ELSE texts[1] \o "," \o Join(Tail(texts))

RECURSIVE JSON_stringify(_)
\* JSON.stringify(value) without replacer and indent, for a value that is not
\* undefined: a property that holds undefined is left out, an element that is
\* undefined is written null.
JSON_stringify(value) ==
    CASE value.k = "string" -> "\"" \o value.s \o "\""
      [] value.k = "number" -> ToString(value.n)
      [] value.k = "boolean" -> IF value.b THEN "true" ELSE "false"
      [] value.k \in {"null", "undefined"} -> "null"
      [] IsArray(value) ->
           "[" \o Join([i \in 1..Len(value.e) |-> JSON_stringify(value.e[i])]) \o "]"
      [] OTHER ->
           LET written == SelectSeq(PropsOf(value), LAMBDA p : p[2] # Undef)
           IN  "{" \o Join([i \in 1..Len(written) |->
                               "\"" \o written[i][1] \o "\":"
                               \o JSON_stringify(written[i][2])]) \o "}"

\* TypedJSON.stringify: the empty string when toPlainJson returned undefined.
stringify(config, object, rootConstructor) ==
    LET string(result) ==
          IF Raised(result) THEN result
          ELSE [result EXCEPT !.v = IF result.v = Undef THEN Str("")
                                    ELSE Str(JSON_stringify(result.v))]
    IN  string(toPlainJson(config, object, rootConstructor))

RECURSIVE mapKnownTypes(_)
\* The known types of the settings, under the name nameof gives each.
mapKnownTypes(constructors) ==
    IF constructors = <<>> THEN NoKnownTypes
    ELSE (nameof(constructors[Len(constructors)]) :> constructors[Len(constructors)])
         @@ mapKnownTypes(SubSeq(constructors, 1, Len(constructors) - 1))

\* The known types TypedJSON.parse starts from: those of the settings, then
\* those the root type declares.
parseKnownTypes(config, typeDescriptor) ==
    mapKnownTypes(getFromConstructor(typeDescriptor.ctor).knownTypes)
    @@ mapKnownTypes(config.knownTypes)

\* TypedJSON.parse of a value that is no text: the Deserializer is given an
\* object that holds the root constructor as 'selfConstructor' and the known
\* types, and has no 'ctor'; its parameter knownTypes is given nothing.
parse(config, json, rootConstructor) ==
    Caught(config.errorHandler,
           Des_convertSingleValue(DeserializerOf(config), json,
                                  [kind |-> "none", ctor |-> NoCtor,
                                   selfConstructor |-> rootConstructor,
                                   knownTypes |-> parseKnownTypes(config,
                                                                  Ctor(rootConstructor))],
                                  NoKnownTypes, "object", NoOptions))

\* No settings: TypedJSON._globalConfig before setGlobalConfig, and the
\* settings object {}.
NoSettings == [n \in {} |-> ""]

RECURSIVE Dedupe(_)
\* Array.from(new Set(array))
Dedupe(array) ==
    IF array = <<>> THEN <<>>
    ELSE LET front == Dedupe(SubSeq(array, 1, Len(array) - 1))
         IN  IF \E i \in 1..Len(front) : front[i] = array[Len(array)]
             THEN front ELSE Append(front, array[Len(array)])

\* TypedJSON.config(given) on an instance set up as current: the options
\* of the engines are replaced, the other settings only when given.
config(current, global, given) ==
    LET spread == given @@ global
        merged ==
          IF "knownTypes" \in DOMAIN global
          THEN [spread EXCEPT !.knownTypes = Dedupe(spread.knownTypes \o global.knownTypes)]
          ELSE spread
        pick(key, kept) == IF key \in DOMAIN merged THEN merged[key] ELSE kept
    IN  [options |-> [preserveNull |-> pick("preserveNull", "unset")],
         errorHandler |-> pick("errorHandler", current.errorHandler),
         typeHintEmitter |-> pick("typeHintEmitter", current.typeHintEmitter),
         typeResolver |-> pick("typeResolver", current.typeResolver),
         knownTypes |-> pick("knownTypes", current.knownTypes)]

----------------------------------------------------------------------------
(* The inputs of the runs. *)

Nums == {Num(n) : n \in 0..MaxNum}
Strs == {Str("a"), Str("b")}

\* The classes instances are made of (SemanticBaseOne and StructuralBase are
\* abstract).  Blob is a subclass of Shape without @jsonObject.
Instantiable ==
    {"Simple", "ConcreteOne", "AnotherConcreteOne", "Shape", "Circle", "Square", "Blob",
     "Drawing", "Note", "Memo"}

\* The fields an instance of a class holds.
FieldsOf(c) ==
    IF c = "Blob" THEN ShapeMembers ELSE Registry[c].dataMembers

\* Classes whose instances are also drawn with members null or unset.
Sparse == {"Note", "Memo"}

RECURSIVE ValuesOf(_), Instances(_), FieldSeqs(_, _)
\* The well-typed values of a member of the given type.
ValuesOf(typeDescriptor) ==
    CASE typeDescriptor.ctor = "String" -> Strs
      [] typeDescriptor.ctor = "Number" -> Nums
      [] OTHER -> UNION {Instances(c) : c \in {d \in Instantiable :
                                                 isSubtypeOf(d, typeDescriptor.ctor)}}

\* The field lists over the given members: every member set, or (sparse)
\* also null or unset.
FieldSeqs(members, sparse) ==
    IF members = <<>> THEN {<<>>}
    ELSE LET rest == FieldSeqs(Tail(members), sparse)
             first == {<<(<<Head(members).key, v>>)>> :
                          v \in ValuesOf(Head(members).type)
                                \cup (IF sparse THEN {Null} ELSE {})}
                      \cup (IF sparse THEN {<<>>} ELSE {})
         IN  {f \o r : f \in first, r \in rest}

Instances(c) == {Obj(c, f) : f \in FieldSeqs(FieldsOf(c), c \in Sparse)}

\* The types a conversion of one entity is rooted at.
EntityRoots ==
    {"Simple", "SemanticBaseOne", "ConcreteOne", "AnotherConcreteOne", "Shape", "Circle",
     "Square", "Drawing", "Note", "Memo"}

EntityCases ==
    {<<Concrete(root), x>> :
        root \in EntityRoots,
        x \in UNION {Instances(c) : c \in Instantiable}}

SimpleA == Obj("Simple", <<(<<"strProp", Str("a")>>), (<<"numProp", Num(0)>>)>>)
SimpleB == Obj("Simple", <<(<<"strProp", Str("b")>>), (<<"numProp", Num(1)>>)>>)

RECURSIVE SeqsUpTo(_, _)
\* The sequences over S of length at most n.
SeqsUpTo(S, n) ==
    IF n = 0 THEN {<<>>}
    ELSE LET shorter == SeqsUpTo(S, n - 1)
         IN  shorter \cup {Append(q, x) : q \in {p \in shorter : Len(p) = n - 1}, x \in S}

Distinct(q) == \A i, j \in 1..Len(q) : i # j => q[i] # q[j]
DistinctKeys(q) == \A i, j \in 1..Len(q) : i # j => q[i][1] # q[j][1]

\* Arrays of Simple, with elements that are not Simple.
ArrayCases ==
    {<<ArrayT(Concrete("Simple")), Arr(q)>> :
        q \in SeqsUpTo({SimpleA, SimpleB, Str("a"), Null}, MaxLen)}

\* The rows of the two-dimensional arrays.
Rows ==
    {Arr(p) : p \in SeqsUpTo({SimpleA}, MaxLen) \cup {<<SimpleB>>, <<SimpleA, SimpleB>>}}

\* Two-dimensional arrays of Simple, and three-dimensional ones made of a
\* two-dimensional array of short rows and an empty one.
NestedArrayCases ==
    {<<ArrayT(ArrayT(Concrete("Simple"))), Arr(q)>> : q \in SeqsUpTo(Rows, MaxLen)}
    \cup
    {<<ArrayT(ArrayT(ArrayT(Concrete("Simple")))), Arr(<<Arr(q), Arr(<<>>)>>)>> :
        q \in SeqsUpTo({Arr(<<>>), Arr(<<SimpleA>>), Arr(<<SimpleB>>)}, MaxLen)}

SetCases ==
    {<<SetT(StringT), SetV(q)>> :
        q \in {p \in SeqsUpTo({Str("a"), Str("b"), Num(0), Null, Undef}, MaxLen) :
                 Distinct(p)}}
    \cup
    {<<SetT(Concrete("Simple")), SetV(q)>> :
        q \in {p \in SeqsUpTo({SimpleA, SimpleB, Str("a"), Null}, MaxLen) : Distinct(p)}}

MapKeys == {Str("a"), Str("b"), Num(0)}
MapValues == {Num(0), Str("a"), Null}

MapCases ==
    {<<MapT(kt, NumberT, shape), MapV(q)>> :
        kt \in {StringT, NumberT}, shape \in {"ARRAY", "OBJECT"},
        q \in {p \in SeqsUpTo(MapKeys \X MapValues, MaxLen) : DistinctKeys(p)}}

\* Maps put on a plain object under Boolean keys and under Date keys; two of
\* the Dates are of the same second.
KeyedMapCases ==
    {<<MapT(Concrete("Boolean"), NumberT, "OBJECT"), MapV(q)>> :
        q \in {p \in SeqsUpTo({Bool(TRUE), Bool(FALSE)} \X {Num(0), Num(1)}, MaxLen) :
                 DistinctKeys(p)}}
    \cup
    {<<MapT(Concrete("Date"), NumberT, "OBJECT"), MapV(q)>> :
        q \in {p \in SeqsUpTo({DateV(0), DateV(1), InvalidDate} \X {Num(0), Num(1)},
                                MaxLen) :
                 DistinctKeys(p)}}

\* The instants of the runs, in milliseconds since the epoch.
Instants == (0 - MaxNum)..MaxNum

\* Dates, valid and invalid.
DateCases ==
    {<<Concrete("Date"), d>> : d \in {DateV(t) : t \in Instants} \cup {InvalidDate}}

\* ArrayBuffers and DataViews over the bytes of a text, and over a single
\* byte.
BufferBytes ==
    {createArrayBufferFromString(joinChars(q)).bytes : q \in CodeSeqs(MaxLen)} \cup {<<97>>}

BufferCases ==
    {<<Concrete("ArrayBuffer"), BufferV(bytes)>> : bytes \in BufferBytes}
    \cup {<<Concrete("DataView"), DataViewV(bytes)>> : bytes \in BufferBytes}

\* The elements a fixed-width numeric array of the class can hold.
ElementsOf(c) == Nums \cup (IF c \in UintArrays THEN {Num(255)} ELSE {Num(-1)})

TypedArrayCases ==
    UNION {{<<Concrete(c), TypedArrayV(c, q)>> : q \in SeqsUpTo(ElementsOf(c), MaxLen)} :
             c \in TypedArrays}

\* Instances of the two hierarchies of the custom-hint tests, and the Pairs
\* made of one of each and a Shape.
Ones ==
    {Obj("ConcreteOne", <<(<<"value", Str("a")>>), (<<"prop1", Num(0)>>),
                          (<<"propSub", Str("a")>>)>>),
     Obj("AnotherConcreteOne", <<(<<"value", Str("a")>>), (<<"prop1", Num(0)>>),
                                 (<<"propSub", Num(0)>>)>>)}
Twos ==
    {Obj("ConcreteTwo", <<(<<"value", Str("b")>>), (<<"prop2", Num(0)>>),
                          (<<"propSub", Str("b")>>)>>),
     Obj("AnotherConcreteTwo", <<(<<"value", Str("b")>>), (<<"prop2", Num(0)>>),
                                 (<<"propSub", Num(0)>>)>>)}
PairShapes ==
    {Obj("Shape", <<(<<"id", Num(0)>>)>>),
     Obj("Circle", <<(<<"id", Num(0)>>), (<<"r", Num(1)>>)>>)}

PairCases ==
    {<<Concrete("Pair"), Obj("Pair", <<(<<"one", one>>), (<<"shape", shape>>),
                                       (<<"two", two>>)>>)>> :
        one \in Ones, shape \in PairShapes, two \in Twos}
    \cup {<<Concrete("SemanticBaseTwo"), two>> : two \in Twos}

\* Instances with a member that holds a value of another type than declared.
MistypedCases ==
    {<<Concrete("Simple"), Obj("Simple", <<(<<"strProp", s>>), (<<"numProp", n>>)>>)>> :
        s \in {Str("a"), Num(0), SimpleA}, n \in {Num(1), Str("b")}}
    \cup
    {<<Concrete("Drawing"), Obj("Drawing", <<(<<"title", t>>), (<<"main", m>>)>>)>> :
        t \in {Str("a"), Num(0)},
        m \in {Obj("Shape", <<(<<"id", Num(0)>>)>>), SimpleA, Str("a")}}

\* Albums, with items that are not Simple.
AlbumCases ==
    {<<Concrete("Album"), Obj("Album", <<(<<"title", Str("a")>>), (<<"items", Arr(q)>>)>>)>> :
        q \in SeqsUpTo({SimpleA, Str("a")}, MaxLen)}

\* Plain objects as JSON.parse leaves them.
Plain(f) == Obj("Object", f)

\* Raw objects: strings, numbers and booleans, null, a nested object, an array.
RawObjects ==
    {Plain(<<(<<"language_tag", Str("a")>>)>>),
     Plain(<<(<<"n", Num(0)>>), (<<"t", Bool(TRUE)>>)>>),
     Plain(<<(<<"x", Null>>)>>),
     Plain(<<(<<"inner", Plain(<<(<<"language_tag", Str("a")>>)>>)>>)>>),
     Plain(<<(<<"list", Arr(<<Num(0)>>)>>)>>)}

TranslationsCases ==
    {<<Concrete("Translations"), Obj("Translations", <<(<<"localization", Arr(q)>>)>>)>> :
        q \in SeqsUpTo(RawObjects, MaxLen)}

\* Instances of the classes with an incomplete member: the member holds a
\* value.
LooseCases ==
    {<<Concrete("LooseMember"),
       Obj("LooseMember", <<(<<"any", Str("a")>>), (<<"label", Str("a")>>)>>)>>,
     <<Concrete("LooseArray"),
       Obj("LooseArray", <<(<<"list", Arr(<<Str("a")>>)>>), (<<"label", Str("a")>>)>>)>>,
     <<Concrete("LooseSet"),
       Obj("LooseSet", <<(<<"list", SetV(<<Str("a")>>)>>), (<<"label", Str("a")>>)>>)>>,
     <<Concrete("LooseMapKey"),
       Obj("LooseMapKey", <<(<<"list", MapV(<<(<<Str("a"), Num(0)>>)>>)>>),
                            (<<"label", Str("a")>>)>>)>>,
     <<Concrete("LooseMapValue"),
       Obj("LooseMapValue", <<(<<"list", MapV(<<(<<Str("a"), Num(0)>>)>>)>>),
                              (<<"label", Str("a")>>)>>)>>}

\* Instances of the classes that name hooks.
HookClasses == {"HookInstance", "HookBoth", "HookStatic", "HookNone"}
HookCases ==
    {<<Concrete(c), Obj(c, <<(<<"label", Str("a")>>)>>)>> : c \in HookClasses}

\* Instances of Made, whose metadata names an initializer callback: one for
\* each thing the callback does with the plain form of the instance.
Modes == {"new", "sub", "throw", "null", "wrong"}
MadeCases ==
    {<<Concrete("Made"), Obj("Made", <<(<<"mode", Str(mode)>>), (<<"size", Num(0)>>)>>)>> :
        mode \in Modes}

\* A Simple whose strProp holds a number.
SimpleBad == Obj("Simple", <<(<<"strProp", Num(0)>>), (<<"numProp", Num(0)>>)>>)

\* Arrays of one Shelf: an entity that holds a set of Simple, a map of Simple
\* and rows of Simple, with elements and values that are no Simple or are
\* mistyped.
ShelfCases ==
    {<<ArrayT(Concrete("Shelf")),
       Arr(<<Obj("Shelf", <<(<<"tags", tags>>), (<<"byName", byName>>),
                            (<<"rows", rows>>)>>)>>)>> :
        tags \in {SetV(<<SimpleA>>), SetV(<<Str("a"), SimpleA>>), SetV(<<SimpleBad, SimpleA>>)},
        byName \in {MapV(<<(<<Str("a"), SimpleA>>)>>),
                    MapV(<<(<<Str("a"), SimpleBad>>), (<<Str("b"), SimpleA>>)>>),
                    MapV(<<(<<Num(0), SimpleA>>), (<<Str("b"), SimpleA>>)>>)},
        rows \in {Arr(<<Arr(<<SimpleA>>)>>),
                  Arr(<<Arr(<<SimpleBad, SimpleA>>), Arr(<<SimpleB>>)>>)}}

TypedCases ==
    EntityCases \cup ArrayCases \cup NestedArrayCases \cup SetCases \cup MapCases
    \cup KeyedMapCases
    \cup DateCases \cup BufferCases \cup TypedArrayCases
    \cup PairCases \cup MistypedCases \cup AlbumCases \cup TranslationsCases
    \cup LooseCases \cup HookCases \cup MadeCases \cup ShelfCases

PlainSimple == Plain(<<(<<"strProp", Str("a")>>), (<<"numProp", Num(0)>>)>>)
\* strProp holds a number.
PlainSimpleBad == Plain(<<(<<"strProp", Num(0)>>), (<<"numProp", Num(0)>>)>>)

\* Plain arrays to parse as arrays of Simple, with elements that are not.
PlainArrayCases ==
    {<<ArrayT(Concrete("Simple")), Arr(q)>> :
        q \in SeqsUpTo({PlainSimple, PlainSimpleBad, Str("a"), Null}, MaxLen)}

\* Plain arrays of {key, value} records and plain objects to parse as maps of
\* either shape.
PlainMapSources ==
    {Arr(q) : q \in SeqsUpTo({Plain(<<(<<"key", k>>), (<<"value", v>>)>>) :
                                 k \in {Str("a"), Num(0)}, v \in {Num(0), PlainSimple}},
                             MaxLen)}
    \cup
    {Plain(f) : f \in {g \in SeqsUpTo({"a", "b"} \X {Num(0), PlainSimple}, MaxLen) :
                         DistinctKeys(g)}}

PlainMapCases ==
    {<<MapT(StringT, vt, shape), json>> :
        vt \in {NumberT, Concrete("Simple")}, shape \in {"ARRAY", "OBJECT"},
        json \in PlainMapSources}

\* Elements of a plain array to parse as a map of the array shape: records
\* whose key or value is null, missing or of another type than declared, and
\* null in the place of a record.
PlainMapElements ==
    {Plain(<<(<<"key", k>>), (<<"value", v>>)>>) :
        k \in {Str("a"), Str("b")}, v \in {Num(0), Null}}
    \cup {Plain(<<(<<"key", Str("a")>>), (<<"value", Str("a")>>)>>),
          Plain(<<(<<"key", Num(0)>>), (<<"value", Num(0)>>)>>),
          Plain(<<(<<"key", Null>>), (<<"value", Num(0)>>)>>),
          Plain(<<(<<"value", Num(0)>>)>>),
          Null}

\* Plain arrays and plain objects with such entries, to parse as maps with
\* String or Number keys.
PlainMapEntryCases ==
    {<<MapT(kt, NumberT, shape), json>> :
        kt \in {StringT, NumberT}, shape \in {"ARRAY", "OBJECT"},
        json \in {Arr(q) : q \in SeqsUpTo(PlainMapElements, MaxLen)}
                 \cup {Plain(f) : f \in {g \in SeqsUpTo({"a", "b"} \X {Num(0), Null, Str("a")},
                                                        MaxLen) : DistinctKeys(g)}}}

\* Plain objects to parse as maps with Date keys: the keys are the texts
\* toISOString and toString give, and a text that is no date.
PlainDateKeyCases ==
    {<<MapT(Concrete("Date"), NumberT, "OBJECT"), Plain(f)>> :
        f \in {g \in SeqsUpTo({toISOString(1), DateToString(DateV(0)), "a"} \X {Num(0), Num(1)},
                               MaxLen) : DistinctKeys(g)}}

\* Plain values to convert to a Date: numbers of either sign, ISO texts, a
\* text that is no date, a Date, and values of other types.
PlainDateCases ==
    {<<Concrete("Date"), v>> :
        v \in {Num(t) : t \in Instants} \cup {Str(toISOString(t)) : t \in Instants}
              \cup {Str(localISOString(0)), Str(DateToString(DateV(0)))}
              \cup {Str("a"), DateV(0), Bool(TRUE), Bool(FALSE), Plain(<<>>), Arr(<<>>)}}

\* Plain values to convert to an ArrayBuffer or a DataView.
PlainBufferCases ==
    {<<Concrete(c), v>> :
        c \in {"ArrayBuffer", "DataView"},
        v \in {Str(joinChars(q)) : q \in CodeSeqs(MaxLen)} \cup {Num(0), Arr(<<>>)}}

\* Plain values to convert to a fixed-width numeric array: arrays of numbers
\* and of other values, and values that are no arrays.
PlainTypedArrayCases ==
    {<<Concrete(c), v>> :
        c \in TypedArrays,
        v \in {Arr(q) : q \in SeqsUpTo(Nums \cup {Num(256), Null, Str("a")}, MaxLen)}
              \cup {Str("a"), Num(0)}}
    \cup
    {<<Concrete(c), Arr(q)>> :
        c \in TypedArrays \ {"Uint32Array"},
        q \in {<<Num(-1)>>, <<Num(-1), Num(0)>>}}

\* A field that is set to one of the values, or not set.
Optional(key, values) == {<<(<<key, v>>)>> : v \in values} \cup {<<>>}

\* Plain objects with and without type hints, to parse as a Shape or as one of
\* the classes of the custom-hint tests.
PlainShapes ==
    {Plain(h \o i \o r) :
        h \in Optional("__type", {Str("circle"), Str("Circle"), Str("Square"), Str("Blob"),
                                  Str("Simple"), Str("Shape")}),
        i \in Optional("id", {Num(0)}),
        r \in Optional("r", {Num(1)})}

PlainSemantic ==
    {Plain(h \o <<(<<"value", Str("a")>>), (<<"prop1", Num(0)>>)>> \o sub) :
        h \in Optional("type", {Str("sub-one"), Str("sub-two")}),
        sub \in Optional("propSub", {Str("a"), Num(0)})}

PlainEntityCases ==
    {<<Concrete(root), json>> : root \in {"Shape", "Circle"}, json \in PlainShapes}
    \cup
    {<<Concrete(root), json>> :
        root \in {"SemanticBaseOne", "ConcreteOne"}, json \in PlainSemantic}

\* Plain objects to parse as a Simple, with members that hold a value of
\* another type than declared.
PlainMistypedCases ==
    {<<Concrete("Simple"), Plain(<<(<<"strProp", s>>), (<<"numProp", n>>)>>)>> :
        s \in {Str("a"), Num(0)}, n \in {Num(1), Str("b")}}

\* Plain objects to parse as an Album, with items that are no Simple.
PlainAlbumCases ==
    {<<Concrete("Album"), Plain(<<(<<"title", Str("a")>>), (<<"items", Arr(q)>>)>>)>> :
        q \in SeqsUpTo({PlainSimple, PlainSimpleBad}, MaxLen)}

\* Raw objects to convert as Object.
PlainRawCases == {<<Concrete("Object"), raw>> : raw \in RawObjects}

\* Plain objects to parse as the classes with an incomplete member: the
\* member holds a value.
PlainLooseCases ==
    {<<Concrete("LooseMember"), Plain(<<(<<"any", Str("a")>>), (<<"label", Str("a")>>)>>)>>}
    \cup
    {<<Concrete(c), Plain(<<(<<"list", Arr(<<Str("a")>>)>>), (<<"label", Str("a")>>)>>)>> :
        c \in {"LooseArray", "LooseSet"}}
    \cup
    {<<Concrete(c),
       Plain(<<(<<"list", Arr(<<Plain(<<(<<"key", Str("a")>>), (<<"value", Num(0)>>)>>)>>)>>),
               (<<"label", Str("a")>>)>>)>> :
        c \in {"LooseMapKey", "LooseMapValue"}}

\* Plain objects to parse as a Made, one for each thing its initializer
\* callback does, and as a Kit that holds them.
PlainMade(mode) == Plain(<<(<<"mode", Str(mode)>>), (<<"size", Num(0)>>)>>)
PlainMadeCases ==
    {<<Concrete("Made"), PlainMade(mode)>> : mode \in Modes}
    \cup
    {<<Concrete("Kit"), Plain(<<(<<"made", PlainMade(mode)>>), (<<"items", Arr(q)>>),
                                (<<"label", Str("a")>>)>>)>> :
        mode \in {"new", "throw", "wrong"},
        q \in SeqsUpTo({PlainMade("new"), PlainMade("null"), PlainMade("throw")}, MaxLen)}

\* Plain two-dimensional arrays with a row that holds a mistyped Simple.
PlainMistypedRowCases ==
    {<<ArrayT(ArrayT(Concrete("Simple"))), Arr(q)>> :
        q \in {<<Arr(<<PlainSimpleBad, PlainSimple>>), Arr(<<PlainSimple>>)>>,
               <<Arr(<<PlainSimple>>), Arr(<<PlainSimpleBad, PlainSimple>>)>>}}

\* Plain arrays of one object to parse as an array of Shelf, with mistyped
\* elements and values.
PlainShelfCases ==
    {<<ArrayT(Concrete("Shelf")),
       Arr(<<Plain(<<(<<"tags", tags>>), (<<"byName", byName>>), (<<"rows", rows>>)>>)>>)>> :
        tags \in {Arr(<<PlainSimple>>), Arr(<<PlainSimpleBad, PlainSimple>>)},
        byName \in {Arr(<<Plain(<<(<<"key", Str("a")>>), (<<"value", PlainSimple>>)>>)>>),
                    Arr(<<Plain(<<(<<"key", Str("a")>>), (<<"value", PlainSimpleBad>>)>>),
                          Plain(<<(<<"key", Str("b")>>), (<<"value", PlainSimple>>)>>)>>)},
        rows \in {Arr(<<Arr(<<PlainSimple>>)>>),
                  Arr(<<Arr(<<PlainSimpleBad, PlainSimple>>), Arr(<<PlainSimple>>)>>)}}

\* Plain objects to parse as the classes that name hooks.
PlainHookCases ==
    {<<Concrete(c), Plain(<<(<<"label", Str("a")>>)>>)>> : c \in HookClasses}

\* Plain objects to parse as a Ticket, whose code and count are required.
PlainTicketCases ==
    {<<Concrete("Ticket"), Plain(code \o note \o count)>> :
        code \in Optional("code", {Str("a"), Null}),
        note \in Optional("note", {Str("b"), Null}),
        count \in Optional("count", {Num(0)})}

\* Plain objects to parse as a Vehicle and as a Garage.  Vehicle declares the
\* known type Car, and Car declares the known type Bolt for its part;
\* Garage and Part declare none.
PlainParts ==
    {Plain(<<(<<"name", Str("a")>>)>>),
     Plain(<<(<<"__type", Str("Bolt")>>), (<<"name", Str("a")>>)>>)}
PlainVehicles ==
    {Plain(<<(<<"id", Num(0)>>)>>)}
    \cup {Plain(<<(<<"__type", Str("Car")>>), (<<"id", Num(0)>>), (<<"part", part>>)>>) :
            part \in PlainParts}
PlainGarageCases ==
    {<<Concrete("Vehicle"), first>> : first \in PlainVehicles}
    \cup {<<Concrete("Garage"), Plain(<<(<<"first", first>>), (<<"spare", spare>>)>>)>> :
            first \in PlainVehicles, spare \in PlainParts}

PlainCases ==
    PlainArrayCases \cup PlainMapCases \cup PlainEntityCases \cup PlainMistypedCases
    \cup PlainAlbumCases \cup PlainRawCases \cup PlainLooseCases
    \cup PlainMadeCases \cup PlainHookCases \cup PlainTicketCases
    \cup PlainGarageCases \cup PlainMapEntryCases \cup PlainDateKeyCases
    \cup PlainDateCases \cup PlainBufferCases \cup PlainTypedArrayCases
    \cup PlainMistypedRowCases \cup PlainShelfCases

\* The settings of a TypedJSON instance: preserveNull set or not, an error
\* handler that logs or one that re-throws, the known types.
Configs(knownTypes) ==
    [options : {NoOptions, PreserveNull},
     errorHandler : {"log", "throw"},
     typeHintEmitter : {"default"},
     typeResolver : {"default"},
     knownTypes : knownTypes]

\* Settings with a type-hint emitter and a type resolver of their own.
CustomConfigs ==
    [options : {NoOptions},
     errorHandler : {"log", "throw"},
     typeHintEmitter : {"default", "hint"},
     typeResolver : {"default", "hint"},
     knownTypes : {<<>>}]

TypedConfigs(c) ==
    IF c \in PairCases THEN CustomConfigs
    ELSE Configs(IF c \in EntityCases THEN {<<>>, <<"Square">>} ELSE {<<>>})

PlainConfigs(c) ==
    Configs(IF c \in PlainEntityCases THEN {<<>>, <<"Square">>, <<"Simple">>}
            ELSE IF c \in PlainGarageCases THEN {<<>>, <<"Bolt">>}
            ELSE {<<>>})

\* The constructor of TypedJSON takes a root constructor that is a class
\* marked with @jsonObject, and throws for any other.
IsRootClass(typeDescriptor) ==
    /\ typeDescriptor.kind = "constructor"
    /\ getFromConstructor(typeDescriptor.ctor).defined
    /\ getFromConstructor(typeDescriptor.ctor).isExplicitlyMarked

\* What the methods of a TypedJSON instance are given: the instance is made
\* for Simple or for Shape.
InstanceTypedCases ==
    {<<Ctor(root), x>> :
        root \in {"Simple", "Shape"},
        x \in {SimpleA, Obj("Circle", <<(<<"id", Num(0)>>)>>), Null, Num(0),
               Arr(<<SimpleA, SimpleB>>), SetV(<<SimpleA>>),
               MapV(<<(<<Str("a"), SimpleA>>)>>)}}

InstancePlainCases ==
    {<<Ctor(root), json>> :
        root \in {"Simple", "Shape"},
        json \in {PlainSimple, PlainSimpleBad, Null, Num(0), Arr(<<>>),
                  Arr(<<PlainSimple>>),
                  Arr(<<Plain(<<(<<"key", Str("a")>>), (<<"value", PlainSimple>>)>>)>>)}}

\* The settings objects given to TypedJSON.config and to setGlobalConfig.
ConfigInputs ==
    {NoSettings, [errorHandler |-> "log"], [errorHandler |-> "throw"],
     [preserveNull |-> "on"], [knownTypes |-> <<"Square">>]}
GlobalInputs ==
    {[errorHandler |-> "throw"], [knownTypes |-> <<"Circle">>]}

----------------------------------------------------------------------------
(* The runs: a typed value is converted to a plain one and the result is   *)
(* converted back, or a plain value is converted.  The conversions are     *)
(* calls of Serializer.convertSingleValue and Deserializer.convertSingle-  *)
(* Value with a type descriptor, or calls of the methods of a TypedJSON    *)
(* instance.                                                               *)

InitTyped ==
    /\ \E c \in TypedCases \cup InstanceTypedCases :
          /\ rootType = c[1]
          /\ typed = c[2]
          /\ settings \in TypedConfigs(c)
    /\ pc = "typed"
    /\ plain = NotRun

InitPlain ==
    /\ \E c \in PlainCases \cup InstancePlainCases :
          /\ rootType = c[1]
          /\ plain = [NotRun EXCEPT !.v = c[2]]
          /\ settings \in PlainConfigs(c)
    /\ typed = Undef
    /\ pc = "plain"

Init ==
    /\ InitTyped \/ InitPlain
    /\ theSerializer = SerializerOf(settings)
    /\ theDeserializer = DeserializerOf(settings)
    /\ setterCalls = 0
    /\ globalConfig = NoSettings
    /\ revived = NotRun
    /\ text = NotRun
    /\ calls = <<>>

\* The record of a call of the method of the TypedJSON instance under the
\* error handler in force.
Called(method) ==
    Append(calls, [method |-> method, errorHandler |-> settings.errorHandler])

\* The record of a call of the method of the engine as it is set.
CalledEngine(method, engine) ==
    Append(calls, [method |-> method, errorHandler |-> engine.errorHandler,
                   engine |-> engine])

\* An argument of a setter that is no function.
NotAFunction == "notAFunction"

\* The callbacks and options given to the setters of the engines.
ErrorHandlers == {"log", "throw"}
TypeHintEmitters == {"default", "hint"}
TypeResolvers == {"default", "hint"}
NameResolvers == {"nameof"}
EngineOptions == {NoOptions, PreserveNull}

\* The engines are held by the caller (those of a TypedJSON instance are
\* private), the run is not over and has setter calls left.
SetterCall ==
    /\ rootType.kind # "constructor"
    /\ pc # "done"
    /\ setterCalls < MaxSetterCalls
    /\ setterCalls' = setterCalls + 1
    /\ UNCHANGED <<pc, settings, globalConfig, rootType, typed, plain, revived, text, calls>>

\* Serializer.setTypeHintEmitter(typeEmitterCallback): an argument that is
\* no function is refused with a TypeError and the emitter stays.
SerializerSetTypeHintEmitter ==
    /\ SetterCall
    /\ pc = "typed"
    /\ \E typeEmitterCallback \in TypeHintEmitters \cup {NotAFunction} :
          theSerializer' = IF typeEmitterCallback = NotAFunction THEN theSerializer
                           ELSE [theSerializer EXCEPT !.typeHintEmitter = typeEmitterCallback]
    /\ UNCHANGED theDeserializer

\* Serializer.setErrorHandler(errorHandlerCallback): an argument that is no
\* function is refused with a TypeError and the handler stays.
SerializerSetErrorHandler ==
    /\ SetterCall
    /\ pc = "typed"
    /\ \E errorHandlerCallback \in ErrorHandlers \cup {NotAFunction} :
          theSerializer' = IF errorHandlerCallback = NotAFunction THEN theSerializer
                           ELSE [theSerializer EXCEPT !.errorHandler = errorHandlerCallback]
    /\ UNCHANGED theDeserializer

\* serializer.options = options
SerializerOptions ==
    /\ SetterCall
    /\ pc = "typed"
    /\ \E options \in EngineOptions : theSerializer' = [theSerializer EXCEPT !.options = options]
    /\ UNCHANGED theDeserializer

\* Deserializer.setNameResolver(nameResolverCallback); the argument is not
\* examined.
DeserializerSetNameResolver ==
    /\ SetterCall
    /\ \E nameResolverCallback \in NameResolvers :
          theDeserializer' = [theDeserializer EXCEPT !.nameResolver = nameResolverCallback]
    /\ UNCHANGED theSerializer

\* Deserializer.setTypeResolver(typeResolverCallback): an argument that is no
\* function is refused with a TypeError and the resolver stays.
DeserializerSetTypeResolver ==
    /\ SetterCall
    /\ \E typeResolverCallback \in TypeResolvers \cup {NotAFunction} :
          theDeserializer' = IF typeResolverCallback = NotAFunction THEN theDeserializer
                             ELSE [theDeserializer EXCEPT !.typeResolver = typeResolverCallback]
    /\ UNCHANGED theSerializer

\* Deserializer.setErrorHandler(errorHandlerCallback): an argument that is no
\* function is refused with a TypeError and the handler stays.
DeserializerSetErrorHandler ==
    /\ SetterCall
    /\ \E errorHandlerCallback \in ErrorHandlers \cup {NotAFunction} :
          theDeserializer' = IF errorHandlerCallback = NotAFunction THEN theDeserializer
                             ELSE [theDeserializer EXCEPT !.errorHandler = errorHandlerCallback]
    /\ UNCHANGED theSerializer

\* deserializer.options = options
DeserializerOptions ==
    /\ SetterCall
    /\ \E options \in EngineOptions :
          theDeserializer' = [theDeserializer EXCEPT !.options = options]
    /\ UNCHANGED theSerializer

\* Serializer.convertSingleValue(typed, rootType); no catch block wraps the
\* call.
SerializerConvertSingleValue ==
    /\ pc = "typed"
    /\ rootType.kind # "constructor"
    /\ plain' = Uncaught(Ser_convertSingleValue(theSerializer, typed, rootType,
                                                "object", NoOptions))
    /\ pc' = "plain"
    /\ calls' = CalledEngine("Serializer.convertSingleValue", theSerializer)
    /\ UNCHANGED <<settings, theSerializer, theDeserializer, setterCalls, globalConfig, rootType, typed, revived, text>>

\* Deserializer.convertSingleValue(plain, rootType, knownTypes) with the known
\* types of the run; no catch block wraps the call.
DeserializerConvertSingleValue ==
    /\ pc = "plain"
    /\ rootType.kind # "constructor"
    /\ revived' = Uncaught(Des_convertSingleValue(theDeserializer, plain.v, rootType,
                                                  mapKnownTypes(settings.knownTypes),
                                                  "object", NoOptions))
    /\ pc' = "done"
    /\ calls' = CalledEngine("Deserializer.convertSingleValue", theDeserializer)
    /\ UNCHANGED <<settings, theSerializer, theDeserializer, setterCalls, globalConfig, rootType, typed, plain, text>>

\* TypedJSON.setGlobalConfig(given): Object.assign on the global settings.
SetGlobalConfig ==
    /\ rootType.kind = "constructor"
    /\ \E given \in GlobalInputs : globalConfig' = given @@ globalConfig
    /\ UNCHANGED <<pc, settings, theSerializer, theDeserializer, setterCalls, rootType, typed, plain, revived, text, calls>>

\* TypedJSON.config(given) on the instance.
Config ==
    /\ IsRootClass(rootType)
    /\ \E given \in ConfigInputs : settings' = config(settings, globalConfig, given)
    /\ theSerializer' = SerializerOf(settings')
    /\ theDeserializer' = DeserializerOf(settings')
    /\ UNCHANGED <<pc, setterCalls, globalConfig, rootType, typed, plain, revived, text, calls>>

ToPlainJson ==
    /\ pc = "typed"
    /\ IsRootClass(rootType)
    /\ plain' = toPlainJson(settings, typed, rootType.ctor)
    /\ pc' = "plain"
    /\ calls' = Called("toPlainJson")
    /\ UNCHANGED <<settings, theSerializer, theDeserializer, setterCalls, globalConfig, rootType, typed, revived, text>>

ToPlainArray ==
    /\ pc = "typed"
    /\ IsRootClass(rootType)
    /\ plain' = toPlainArray(settings, typed)
    /\ pc' = "plain"
    /\ calls' = Called("toPlainArray")
    /\ UNCHANGED <<settings, theSerializer, theDeserializer, setterCalls, globalConfig, rootType, typed, revived, text>>

ToPlainSet ==
    /\ pc = "typed"
    /\ IsRootClass(rootType)
    /\ plain' = toPlainSet(settings, typed)
    /\ pc' = "plain"
    /\ calls' = Called("toPlainSet")
    /\ UNCHANGED <<settings, theSerializer, theDeserializer, setterCalls, globalConfig, rootType, typed, revived, text>>

ToPlainMap ==
    /\ pc = "typed"
    /\ IsRootClass(rootType)
    /\ plain' = toPlainMap(settings, typed)
    /\ pc' = "plain"
    /\ calls' = Called("toPlainMap")
    /\ UNCHANGED <<settings, theSerializer, theDeserializer, setterCalls, globalConfig, rootType, typed, revived, text>>

Stringify ==
    /\ pc = "typed"
    /\ IsRootClass(rootType)
    /\ text' = stringify(settings, typed, rootType.ctor)
    /\ pc' = "text"
    /\ calls' = Called("stringify")
    /\ UNCHANGED <<settings, theSerializer, theDeserializer, setterCalls, globalConfig, rootType, typed, plain, revived>>

\* TypedJSON.stringifyAsArray: JSON.stringify of what toPlainArray returned,
\* which is undefined.
StringifyAsArray ==
    /\ pc = "typed"
    /\ IsRootClass(rootType)
    /\ text' = toPlainArray(settings, typed)
    /\ pc' = "text"
    /\ calls' = Called("stringifyAsArray")
    /\ UNCHANGED <<settings, theSerializer, theDeserializer, setterCalls, globalConfig, rootType, typed, plain, revived>>

StringifyAsSet ==
    /\ pc = "typed"
    /\ IsRootClass(rootType)
    /\ text' = toPlainSet(settings, typed)
    /\ pc' = "text"
    /\ calls' = Called("stringifyAsSet")
    /\ UNCHANGED <<settings, theSerializer, theDeserializer, setterCalls, globalConfig, rootType, typed, plain, revived>>

StringifyAsMap ==
    /\ pc = "typed"
    /\ IsRootClass(rootType)
    /\ text' = toPlainMap(settings, typed)
    /\ pc' = "text"
    /\ calls' = Called("stringifyAsMap")
    /\ UNCHANGED <<settings, theSerializer, theDeserializer, setterCalls, globalConfig, rootType, typed, plain, revived>>

\* TypedJSON.parse of a plain value.
Parse ==
    /\ pc = "plain"
    /\ IsRootClass(rootType)
    /\ revived' = parse(settings, plain.v, rootType.ctor)
    /\ pc' = "done"
    /\ calls' = Called("parse")
    /\ UNCHANGED <<settings, theSerializer, theDeserializer, setterCalls, globalConfig, rootType, typed, plain, text>>

\* typeof value
TypeOf(value) == IF value.k = "null" THEN "object" ELSE value.k

\* TypedJSON.parseAsArray: the Deserializer has no method convertAsArray, and
\* no catch block wraps the call.
ParseAsArray ==
    /\ pc = "plain"
    /\ IsRootClass(rootType)
    /\ revived' =
         IF IsArray(plain.v)
         THEN Uncaught(Throw(TypeError("this.deserializer.convertAsArray is not a function")))
         ELSE Uncaught(Returning(Arr(<<>>),
                                 Report(settings.errorHandler,
                                        TypeError("Expected 'json' to define an Array, but got "
                                                  \o TypeOf(plain.v) \o "."))))
    /\ pc' = "done"
    /\ calls' = Called("parseAsArray")
    /\ UNCHANGED <<settings, theSerializer, theDeserializer, setterCalls, globalConfig, rootType, typed, plain, text>>

ParseAsSet ==
    /\ pc = "plain"
    /\ IsRootClass(rootType)
    /\ revived' =
         IF IsArray(plain.v)
         THEN Uncaught(Throw(TypeError("this.deserializer.convertAsSet is not a function")))
         ELSE Uncaught(Returning(SetV(<<>>),
                                 Report(settings.errorHandler,
                                        TypeError("Expected 'json' to define a Set (using an Array), but got "
                                                  \o TypeOf(plain.v) \o "."))))
    /\ pc' = "done"
    /\ calls' = Called("parseAsSet")
    /\ UNCHANGED <<settings, theSerializer, theDeserializer, setterCalls, globalConfig, rootType, typed, plain, text>>

ParseAsMap ==
    /\ pc = "plain"
    /\ IsRootClass(rootType)
    /\ revived' =
         IF IsArray(plain.v)
         THEN Uncaught(Throw(TypeError("this.deserializer.convertAsMap is not a function")))
         ELSE Uncaught(Returning(MapV(<<>>),
                                 Report(settings.errorHandler,
                                        TypeError("Expected 'json' to define a Set (using an Array), but got "
                                                  \o TypeOf(plain.v) \o "."))))
    /\ pc' = "done"
    /\ calls' = Called("parseAsMap")
    /\ UNCHANGED <<settings, theSerializer, theDeserializer, setterCalls, globalConfig, rootType, typed, plain, text>>

Next ==
    \/ SerializerSetTypeHintEmitter
    \/ SerializerSetErrorHandler
    \/ SerializerOptions
    \/ DeserializerSetNameResolver
    \/ DeserializerSetTypeResolver
    \/ DeserializerSetErrorHandler
    \/ DeserializerOptions
    \/ SerializerConvertSingleValue
    \/ DeserializerConvertSingleValue
    \/ SetGlobalConfig
    \/ Config
    \/ ToPlainJson
    \/ ToPlainArray
    \/ ToPlainSet
    \/ ToPlainMap
    \/ Stringify
    \/ StringifyAsArray
    \/ StringifyAsSet
    \/ StringifyAsMap
    \/ Parse
    \/ ParseAsArray
    \/ ParseAsSet
    \/ ParseAsMap

Spec == Init /\ [][Next]_vars

\* The methods of a TypedJSON instance are called.
InstanceRun == rootType.kind = "constructor"

\* The engines are called with the descriptor of a class that is no
\* built-in type.
EntityRun == rootType.kind = "concrete" /\ rootType.ctor \notin Builtins

\* The engines are called with the descriptor of a built-in type that is no
\* collection: Object, Date, a buffer or a fixed-width numeric array.
BuiltinRun == rootType.kind = "concrete" /\ rootType.ctor \in Builtins

\* The runs start as those of a TypedJSON instance, or as those of the
\* engines on classes.
InitEntities == Init /\ (InstanceRun \/ EntityRun)

\* The runs that start so.
SpecEntities == InitEntities /\ [][Next]_vars

\* The runs start as those of a TypedJSON instance, or as those of the
\* engines on arrays.
InitArrays == Init /\ (InstanceRun \/ rootType.kind = "array")

\* The runs that start so.
SpecArrays == InitArrays /\ [][Next]_vars

\* The runs start as those of a TypedJSON instance, or as those of the
\* engines on sets.
InitSets == Init /\ (InstanceRun \/ rootType.kind = "set")

\* The runs that start so.
SpecSets == InitSets /\ [][Next]_vars

\* The runs start as those of a TypedJSON instance, or as those of the
\* engines on maps.
InitMaps == Init /\ (InstanceRun \/ rootType.kind = "map")

\* The runs that start so.
SpecMaps == InitMaps /\ [][Next]_vars

\* The runs start as those of a TypedJSON instance, or as those of the
\* engines on plain objects, Dates, buffers and fixed-width numeric arrays.
InitBuiltins == Init /\ (InstanceRun \/ BuiltinRun)

\* The runs of all families that start with an error handler that throws,
\* and the runs of a TypedJSON instance.
InitThrowing == Init /\ (InstanceRun \/ settings.errorHandler = "throw")

\* The runs whose error handler throws from the start.
SpecThrowing == InitThrowing /\ [][Next]_vars

\* The runs that start so.
SpecBuiltins == InitBuiltins /\ [][Next]_vars

----------------------------------------------------------------------------
(* The engines as they were set when they converted. *)

\* The Serializer as it was set when it converted the typed value (as it is
\* set now, before that).
SerializerUsed ==
    LET made == SelectSeq(calls, LAMBDA c : c.method = "Serializer.convertSingleValue")
    IN  IF made = <<>> THEN theSerializer ELSE made[1].engine

\* The Deserializer as it was set when it converted the plain value (as it
\* is set now, before that).
DeserializerUsed ==
    LET made == SelectSeq(calls, LAMBDA c : c.method = "Deserializer.convertSingleValue")
    IN  IF made = <<>> THEN theDeserializer ELSE made[1].engine

----------------------------------------------------------------------------
(* Round trip of entities. *)

\* The engines are called with the descriptor of a class marked with
\* @jsonObject.
RootedAtClass(typeDescriptor) ==
    /\ typeDescriptor.kind = "concrete"
    /\ getFromConstructor(typeDescriptor.ctor).defined
    /\ getFromConstructor(typeDescriptor.ctor).isExplicitlyMarked

IsEntity(v) == v.k = "object" /\ v.ctor \notin Builtins

\* The hooks the metadata of a class names are methods of its instances or
\* static methods of the class.
HooksDeclared(ctor) ==
    {getFromConstructor(ctor).beforeSerializationMethodName,
     getFromConstructor(ctor).onDeserializedMethodName} \ {""}
        \subseteq (Methods(ctor) \cup Statics(ctor))

RECURSIVE Complete(_)
\* x is an instance of a class with metadata, every declared member is a
\* primitive or an entity and is defined, and every member that is an entity
\* is complete as well.
Complete(x) ==
    /\ IsEntity(x)
    /\ getFromConstructor(x.ctor).defined
    /\ \A i \in 1..Len(Registry[x.ctor].dataMembers) :
         LET m == Registry[x.ctor].dataMembers[i]
             v == Get(x.f, m.key)
         IN  /\ isValueDefined(v)
             /\ m.type.kind = "concrete"
             /\ isInstanceOf(v, m.type.ctor)
             /\ (m.type.ctor \notin Builtins => Complete(v))

\* The initializer callback the metadata of x's class names, called with the
\* plain form json of x, returns an object of x's own class; a class whose
\* metadata names none is built with its constructor.
InitializerBuilds(x, json) ==
    LET callback == getFromConstructor(x.ctor).initializerCallback
        made == InitializerCallback(callback, x.f, json)
    IN  callback # "none" =>
          (~Raised(made) /\ made.v.k = "object" /\ made.v.ctor = x.ctor)

RECURSIVE Buildable(_, _)
\* The hooks the metadata of x's class names are declared, its initializer
\* callback builds x's class from the plain form json of x, and the same
\* holds of the entities x holds.
Buildable(x, json) ==
    /\ HooksDeclared(x.ctor)
    /\ InitializerBuilds(x, json)
    /\ \A i \in 1..Len(Registry[x.ctor].dataMembers) :
         LET m == Registry[x.ctor].dataMembers[i]
         IN  m.type.ctor \notin Builtins =>
               Buildable(Get(x.f, m.key), Get(PropsOf(json), m.name))

RECURSIVE SameMembers(_, _)
\* y is an instance of x's class and its declared members equal x's.
SameMembers(x, y) ==
    /\ y.k = "object"
    /\ y.ctor = x.ctor
    /\ \A i \in 1..Len(Registry[x.ctor].dataMembers) :
         LET m == Registry[x.ctor].dataMembers[i]
         IN  IF IsEntity(Get(x.f, m.key))
             THEN SameMembers(Get(x.f, m.key), Get(y.f, m.key))
             ELSE Get(y.f, m.key) = Get(x.f, m.key)

RECURSIVE HintsResolve(_, _, _)
\* The hint written for x, an instance expected to be of class expected, is
\* resolved to x's class under the known types in effect, and so are the
\* hints written for the entities x holds.
HintsResolve(knownTypes, expected, x) ==
    LET json == Ser_convertSingleValue(SerializerUsed, x, Concrete(expected),
                                       "object", NoOptions).v
        res == Des_resolve(DeserializerUsed, json, Concrete(expected), knownTypes)
    IN  /\ res.expectedSelfType = x.ctor
        /\ \A i \in 1..Len(Registry[x.ctor].dataMembers) :
             LET m == Registry[x.ctor].dataMembers[i]
             IN  m.type.ctor \notin Builtins =>
                   HintsResolve(res.knownTypeConstructors, m.type.ctor,
                                Get(x.f, m.key))

\* A complete instance of the root type was converted and parsed back.
RoundTripRun ==
    /\ pc = "done"
    /\ rootType.kind = "concrete"
    /\ isInstanceOf(typed, rootType.ctor)
    /\ Complete(typed)

RoundTrips ==
    /\ SameMembers(typed, revived.v)
    /\ Errors(plain) = <<>>
    /\ Errors(revived) = <<>>

\* C1 as claimed: parsing the plain form of every complete instance of the
\* root type gives back an instance of its class with equal members, without
\* an error.
C1_AsClaimed == RoundTripRun => RoundTrips

\* The hints resolve, the hooks are declared and the initializer callbacks
\* build the classes of the typed value and of the entities it holds.
Restorable ==
    /\ HintsResolve(mapKnownTypes(settings.knownTypes), rootType.ctor, typed)
    /\ Buildable(typed, plain.v)

\* C1: parsing the plain form of a complete instance of the root type gives
\* back an instance of its class with equal declared members, and no error is
\* reported, when (a) the type hints written for the instance and for the
\* entities it holds are resolved to their classes (the class is the expected
\* one, or the type resolver in effect knows it), (b) every hook the metadata
\* of these classes names is a method of the instance or a static method of
\* the class, and (c) the initializer callback the metadata names, if any,
\* returns an object of the class itself for the plain form.
C1_RoundTrip == (RoundTripRun /\ Restorable) => RoundTrips

\* A Drawing holding a Circle (a registered subtype of the declared Shape) was
\* parsed back equal.
C1_Witness ==
    /\ RoundTripRun
    /\ typed.ctor = "Drawing"
    /\ Get(typed.f, "main").ctor = "Circle"
    /\ Restorable
    /\ RoundTrips

\* A Made whose initializer callback returns a Made was parsed back equal: the
\* callback was called once and the hook 'ready' ran on what it returned.
C1_MadeRoundTrip ==
    /\ RoundTripRun
    /\ typed.ctor = "Made"
    /\ Restorable
    /\ Len(SelectSeq(revived.log, LAMBDA e : e.ev = "init")) = 1
    /\ RoundTrips

\* The three ways the round trip of a complete instance fails.  (a) A Square
\* written where a Shape is expected: the hint 'Square' is not resolved and
\* a Shape comes back.
C1_UnresolvedHint ==
    /\ RoundTripRun
    /\ Buildable(typed, plain.v)
    /\ ~HintsResolve(mapKnownTypes(settings.knownTypes), rootType.ctor, typed)
    /\ typed.ctor = "Square"
    /\ rootType.ctor = "Shape"
    /\ revived.v.ctor = "Shape"
    /\ ~RoundTrips

\* (b) A HookNone, whose metadata names hooks the class does not declare: the
\* members come back, and an error was given to the error handler.
C1_UndeclaredHook ==
    /\ RoundTripRun
    /\ HintsResolve(mapKnownTypes(settings.knownTypes), rootType.ctor, typed)
    /\ InitializerBuilds(typed, plain.v)
    /\ ~HooksDeclared(typed.ctor)
    /\ SameMembers(typed, revived.v)
    /\ Errors(revived) # <<>>

\* (c) A Made whose initializer callback returns null, with an error handler
\* that returns: the error is reported and undefined comes back.
C1_FailedInitializer ==
    /\ RoundTripRun
    /\ HintsResolve(mapKnownTypes(settings.knownTypes), rootType.ctor, typed)
    /\ HooksDeclared(typed.ctor)
    /\ ~InitializerBuilds(typed, plain.v)
    /\ Get(typed.f, "mode") = Str("null")
    /\ DeserializerUsed.errorHandler = "log"
    /\ revived.v = Undef
    /\ Len(Errors(revived)) = 1

----------------------------------------------------------------------------
(* Polymorphic deserialization. *)

\* What parse resolved the root object to.
RootResolution ==
    Des_resolve(DeserializerUsed, plain.v, rootType,
                mapKnownTypes(settings.knownTypes))

\* The value a declared member gets from the plain source object.
ExpectedMember(m, classOptions, json) ==
    LET v == Get(PropsOf(json), m.name)
    IN  IF isValueDefined(v) THEN v
        ELSE IF v = Null /\ getOptionValue(mergeOptions(classOptions, m.options))
        THEN Null
        ELSE Undef

\* Every declared member of class c, those of its ancestors included, has on
\* the instance the value the source holds for it; where the source holds an
\* object for a member that is an entity, the instance holds an instance of
\* the member's class.
MembersReified(c, json, instance) ==
    \A i \in 1..Len(getFromConstructor(c).dataMembers) :
        LET m == getFromConstructor(c).dataMembers[i]
            expected == ExpectedMember(m, mergeOptions(DeserializerUsed.options,
                                                       getFromConstructor(c).options), json)
        IN  IF IsKeyed(expected) /\ m.type.ctor \notin Builtins
            THEN isInstanceOf(Get(instance.f, m.key), m.type.ctor)
            ELSE Get(instance.f, m.key) = expected

\* A plain object was parsed whose type hint the resolver resolved to the
\* expected type or to a subtype of it.
PolymorphicRun ==
    /\ pc = "done"
    /\ rootType.kind = "concrete"
    /\ IsKeyed(plain.v)
    /\ RootResolution.typeFromTypeHint # ""
    /\ isSubtypeOf(RootResolution.typeFromTypeHint, rootType.ctor)

ReifiedAsHinted ==
    /\ revived.v.k = "object"
    /\ revived.v.ctor = RootResolution.typeFromTypeHint
    /\ MembersReified(RootResolution.typeFromTypeHint, plain.v, revived.v)

\* C2: whenever the resolver returns the expected type or a subtype S of it,
\* the result is an instance of S (not of the expected base type), and every
\* declared member of S, those of its ancestors included, holds the value of
\* the source.
C2_AsClaimed == PolymorphicRun => ReifiedAsHinted

\* The source object holds, for a declared member of class c that is a string
\* or a number, a value of another type.
MistypedMember(c, json) ==
    \E i \in 1..Len(getFromConstructor(c).dataMembers) :
        LET m == getFromConstructor(c).dataMembers[i]
            v == Get(PropsOf(json), m.name)
        IN  /\ m.type.kind = "concrete"
            /\ m.type.ctor \in {"String", "Number"}
            /\ isValueDefined(v)
            /\ ~isInstanceOf(v, m.type.ctor)

\* {type: 'sub-one', value: 'a', prop1: 0, propSub: 0} parsed as a
\* SemanticBaseOne with an error handler that returns: the resolver of
\* SemanticBaseOne returns ConcreteOne, whose propSub is a string; the
\* TypeError of the member leaves convertSingleValue, no ConcreteOne is
\* returned and the error handler is never called.
C2_MemberRaised ==
    /\ PolymorphicRun
    /\ typed = Undef
    /\ rootType = Concrete("SemanticBaseOne")
    /\ plain.v = Plain(<<(<<"type", Str("sub-one")>>), (<<"value", Str("a")>>),
                         (<<"prop1", Num(0)>>), (<<"propSub", Num(0)>>)>>)
    /\ DeserializerUsed.errorHandler = "log"
    /\ RootResolution.typeFromTypeHint = "ConcreteOne"
    /\ MistypedMember("ConcreteOne", plain.v)
    /\ revived.exc = TypeError("Could not deserialize ConcreteOne.propSub: expected 'String',"
                               \o " got 'Number'.")
    /\ revived.v = Undef
    /\ Errors(revived) = <<>>

\* {__type: 'Blob'} parsed as a Shape: Blob is a known type of Shape without
\* metadata of its own, and a plain object comes back.
C2_UnmarkedSubtype ==
    /\ PolymorphicRun
    /\ RootResolution.typeFromTypeHint = "Blob"
    /\ ~getFromConstructor("Blob").defined
    /\ revived.exc = NoExc
    /\ revived.v.k = "object"
    /\ revived.v.ctor = "Object"

\* What does hold of the resolved type S: when S has metadata of its own and
\* the source holds no mistyped string or number for a member of S, the
\* result is an instance of S with every declared member of S reified.  (No
\* class the type hints of the runs resolve to names an initializer callback;
\* what a callback that fails does to the result is C22.)
C2_Polymorphic ==
    (PolymorphicRun
       /\ getFromConstructor(RootResolution.typeFromTypeHint).defined
       /\ getFromConstructor(RootResolution.typeFromTypeHint).isExplicitlyMarked
       /\ getFromConstructor(RootResolution.typeFromTypeHint).initializerCallback = "none"
       /\ ~MistypedMember(RootResolution.typeFromTypeHint, plain.v))
        => ReifiedAsHinted

\* A plain object hinting "circle" was parsed as a Shape and came out a Circle
\* with the r of the source.
C2_Witness ==
    /\ PolymorphicRun
    /\ typed = Undef
    /\ rootType.ctor = "Shape"
    /\ RootResolution.typeFromTypeHint = "Circle"
    /\ revived.v.ctor = "Circle"
    /\ Get(revived.v.f, "r") = Num(1)

----------------------------------------------------------------------------
(* The default type hint. *)

\* toPlainJson has run on a typed value.
Materialized == pc # "typed" /\ typed # Undef /\ rootType.kind # "constructor"

\* json, the plain form of x where a value of class expected was expected,
\* holds __type exactly when x is of another class, and then the name of the
\* metadata of x's class, or the name of the class when no name is set.
HintAsDefault(json, x, expected) ==
    LET meta == getFromConstructor(x.ctor)
    IN  /\ HasKey(json.f, "__type") <=> x.ctor # expected
        /\ HasKey(json.f, "__type") =>
             Get(json.f, "__type") = Str(IF meta.defined /\ meta.name # ""
                                         THEN meta.name ELSE x.ctor)

\* The emitter in effect for the instances of class c is the default one.
DefaultEmitterFor(c) ==
    /\ SerializerUsed.typeHintEmitter = "default"
    /\ ~(getFromConstructor(c).defined /\ getFromConstructor(c).typeHintEmitter # "none")

\* C3: with the default emitter, the plain object of an entity, and of an
\* entity it holds as a member, has the key __type iff the constructor of the
\* value is not the expected type; its value is the name set in the metadata
\* of the value's class, else the name of the constructor.
C3_DefaultHint ==
    (Materialized /\ rootType.kind = "concrete" /\ IsKeyed(plain.v)
       /\ DefaultEmitterFor(typed.ctor))
      => /\ HintAsDefault(plain.v, typed, rootType.ctor)
         /\ (typed.ctor = "Drawing" /\ IsKeyed(Get(plain.v.f, "main")))
              => HintAsDefault(Get(plain.v.f, "main"), Get(typed.f, "main"), "Shape")

\* A Circle converted where a Shape was expected carries the name "circle" of
\* its metadata.
C3_Witness ==
    /\ Materialized
    /\ rootType = Concrete("Shape")
    /\ typed.ctor = "Circle"
    /\ IsKeyed(plain.v)
    /\ Get(plain.v.f, "__type") = Str("circle")

----------------------------------------------------------------------------
(* Arrays. *)

SimpleArrayT == ArrayT(Concrete("Simple"))

\* Element i of the array fails the check of the element type.
FailsElementCheck(element, elementType) ==
    /\ ~(getOptionValue(SerializerUsed.options) /\ element = Null)
    /\ ~isInstanceOf(element, elementType.ctor)

\* C4 as claimed: converting an array that holds elements of the element type
\* and a value of another type returns an array of the same length, with no
\* value at the index of each element that fails the check of the element
\* type and the conversion of every other element at its index; the errors
\* are reported and the conversion does not raise.
C4_AsClaimed ==
    (Materialized /\ rootType = SimpleArrayT /\ IsArray(typed)
       /\ SerializerUsed.errorHandler = "log"
       /\ (\E i \in 1..Len(typed.e) :
             ~FailsElementCheck(typed.e[i], rootType.elementType))
       /\ (\E j \in 1..Len(typed.e) :
             /\ isValueDefined(typed.e[j])
             /\ FailsElementCheck(typed.e[j], rootType.elementType)))
      => /\ plain.engineExc = NoExc
         /\ Errors(plain) # <<>>
         /\ IsArray(plain.v)
         /\ Len(plain.v.e) = Len(typed.e)
         /\ \A i \in 1..Len(typed.e) :
              IF FailsElementCheck(typed.e[i], rootType.elementType)
              THEN plain.v.e[i] = Undef
              ELSE plain.v.e[i]
                     = Ser_convertSingleValue(SerializerUsed, typed.e[i],
                                              rootType.elementType, "object[]",
                                              NoOptions).v

\* The conversion of one element of the plain array of the run.
ElementRevived(i) ==
    Des_convertSingleValue(DeserializerUsed, plain.v.e[i], rootType.elementType,
                           NoKnownTypes, "object[]", NoOptions)

\* C5: with an error handler that returns, converting a plain array returns
\* an array of the same length that holds undefined at the index of every
\* element whose conversion threw and the converted element at every other
\* index; each thrown error was given to the error handler and the conversion
\* of the array did not raise.
C5_ArrayReify ==
    (pc = "done" /\ rootType = SimpleArrayT /\ IsArray(plain.v)
       /\ DeserializerUsed.errorHandler = "log")
      => /\ revived.engineExc = NoExc
         /\ IsArray(revived.v)
         /\ Len(revived.v.e) = Len(plain.v.e)
         /\ \A i \in 1..Len(plain.v.e) :
              IF Raised(ElementRevived(i))
              THEN /\ revived.v.e[i] = Undef
                   /\ \E n \in 1..Len(Errors(revived)) :
                        Errors(revived)[n].err = ElementRevived(i).exc
              ELSE revived.v.e[i] = ElementRevived(i).v

\* [bad, good] was converted to [undefined, Simple] with the error of the
\* first element reported.
C5_Witness ==
    /\ pc = "done"
    /\ rootType = SimpleArrayT
    /\ DeserializerUsed.errorHandler = "log"
    /\ plain.v = Arr(<<PlainSimpleBad, PlainSimple>>)
    /\ Raised(ElementRevived(1))
    /\ revived.v = Arr(<<Undef, SimpleA>>)
    /\ Len(Errors(revived)) = 1

----------------------------------------------------------------------------
(* Sets. *)

RECURSIVE SetSlots(_, _)
\* The slots of the output of a set: one for an element that is null or
\* undefined, one holding the conversion of an element of the element type,
\* none for an element that is not of the element type.
SetSlots(elements, elementType) ==
    IF elements = <<>> THEN <<>>
    ELSE LET element == Head(elements)
             slot == IF element \in {Null, Undef}
                     THEN <<IF element = Null /\ getOptionValue(SerializerUsed.options)
                            THEN Null ELSE Undef>>
                     ELSE IF isInstanceOf(element, elementType.ctor)
                     THEN <<Ser_convertSingleValue(SerializerUsed, element,
                                                   elementType, "object[]", NoOptions).v>>
                     ELSE <<>>
         IN  slot \o SetSlots(Tail(elements), elementType)

\* The elements of the set that are defined and not of the element type.
FailingElements ==
    {i \in 1..Len(typed.e) : /\ isValueDefined(typed.e[i])
                             /\ ~isInstanceOf(typed.e[i], rootType.elementType.ctor)}

\* C6: with an error handler that returns, the output of a set holds, in the
\* order of iteration, one slot for each element that is null or undefined or
\* converts to a defined value, and none for a defined element that fails the
\* check of its type: n elements with one failing give n-1 slots.
C6_SetMaterialize ==
    (Materialized /\ rootType.kind = "set" /\ SerializerUsed.errorHandler = "log")
      => /\ IsArray(plain.v)
         /\ plain.v.e = SetSlots(typed.e, rootType.elementType)
         /\ Len(plain.v.e) = Len(typed.e) - Cardinality(FailingElements)
         /\ Len(Errors(plain)) = Cardinality(FailingElements)

\* A set of strings holding "a" and 0 gave ["a"].
C6_Witness ==
    /\ Materialized
    /\ rootType = SetT(StringT)
    /\ SerializerUsed.errorHandler = "log"
    /\ typed = SetV(<<Str("a"), Num(0)>>)
    /\ plain.v = Arr(<<Str("a")>>)

----------------------------------------------------------------------------
(* Maps. *)

\* The entries of the map of the run that are retained: the key is of the
\* key type and the value is of the value type, or null when null is kept.
Retained ==
    SelectSeq(typed.e,
              LAMBDA entry :
                 /\ isInstanceOf(entry[1], rootType.keyType.ctor)
                 /\ \/ isInstanceOf(entry[2], rootType.valueType.ctor)
                    \/ (entry[2] = Null /\ getOptionValue(SerializerUsed.options)))

\* The property names the retained entries are put under.
RetainedNames == {ToKey(Retained[i][1]) : i \in 1..Len(Retained)}

\* The value of the last retained entry put under the name.
LastUnder(name) ==
    Retained[CHOOSE i \in 1..Len(Retained) :
                /\ ToKey(Retained[i][1]) = name
                /\ \A j \in (i + 1)..Len(Retained) : ToKey(Retained[j][1]) # name][2]

\* C7 as claimed: a map declared with the object shape is converted to a
\* plain object with one property for each retained entry, named by the key;
\* a map declared with the array shape is converted to an array of {key,
\* value} records of the retained entries in the order of iteration.
C7_AsClaimed ==
    (Materialized /\ rootType.kind = "map" /\ plain.engineExc = NoExc)
      => IF rootType.shape = "OBJECT"
         THEN /\ IsKeyed(plain.v)
              /\ Len(plain.v.f) = Len(Retained)
              /\ \A i \in 1..Len(Retained) :
                   /\ HasKey(plain.v.f, ToKey(Retained[i][1]))
                   /\ Get(plain.v.f, ToKey(Retained[i][1])) = Retained[i][2]
         ELSE /\ IsArray(plain.v)
              /\ plain.v.e = [i \in 1..Len(Retained) |->
                                Obj("Object", <<(<<"key", Retained[i][1]>>),
                                                (<<"value", Retained[i][2]>>)>>)]

\* C7: a map declared with the object shape is converted to a plain object
\* with one property for each text String(key) of the retained entries,
\* holding the value of the last retained entry whose key has that text (so
\* one property for each retained entry when the texts of the keys differ);
\* a map declared with the array shape is converted to an array of {key,
\* value} records of the retained entries in the order of iteration.
C7_MapShape ==
    (Materialized /\ rootType.kind = "map" /\ plain.engineExc = NoExc)
      => IF rootType.shape = "OBJECT"
         THEN /\ IsKeyed(plain.v)
              /\ Keys(plain.v.f) = RetainedNames
              /\ Len(plain.v.f) = Cardinality(RetainedNames)
              /\ \A name \in RetainedNames : Get(plain.v.f, name) = LastUnder(name)
         ELSE /\ IsArray(plain.v)
              /\ plain.v.e = [i \in 1..Len(Retained) |->
                                Obj("Object", <<(<<"key", Retained[i][1]>>),
                                                (<<"value", Retained[i][2]>>)>>)]

\* A map of two entries under Dates of the same second, declared with the
\* object shape, gave a plain object of one property that holds the value of
\* the second entry.
C7_Witness ==
    /\ Materialized
    /\ rootType = MapT(Concrete("Date"), NumberT, "OBJECT")
    /\ typed = MapV(<<(<<DateV(0), Num(0)>>), (<<DateV(1), Num(1)>>)>>)
    /\ plain.v = Obj("Object",
                     <<(<<"Thu Jan 01 1970 00:00:00 GMT+0000 (Coordinated Universal Time)",
                          Num(1)>>)>>)

\* C8 as claimed: converting a plain array of {key, value} records to a map
\* declared with the object shape, or a plain object that is no array to a
\* map declared with the array shape, reports an error and returns an empty
\* Map.
C8_AsClaimed ==
    (pc = "done" /\ rootType.kind = "map" /\ DeserializerUsed.errorHandler = "log"
       /\ \/ (IsArray(plain.v) /\ plain.v.e # <<>> /\ rootType.shape = "OBJECT")
          \/ (IsKeyed(plain.v) /\ rootType.shape = "ARRAY"))
      => /\ Errors(revived) # <<>>
         /\ revived.v = MapV(<<>>)

----------------------------------------------------------------------------
(* null and undefined. *)

\* preserveNull for a member: the option of the member, else that of the
\* class, else that of the settings.
PreserveNullFor(engine, classOptions, memberOptions) ==
    IF memberOptions.preserveNull # "unset" THEN memberOptions.preserveNull = "on"
    ELSE IF classOptions.preserveNull # "unset" THEN classOptions.preserveNull = "on"
    ELSE engine.options.preserveNull = "on"

\* C9: a declared member that holds null or undefined gives no key in the
\* plain object when preserveNull is off for it; a member that holds null
\* gives the key with null when preserveNull is on for it (the option of the
\* member, else of the class, else of the settings), and parsing that plain
\* object sets the member to null.
C9_NullUndefined ==
    (Materialized /\ rootType.kind = "concrete" /\ IsKeyed(plain.v)
       /\ getFromConstructor(typed.ctor).defined)
      => \A i \in 1..Len(Registry[typed.ctor].dataMembers) :
           LET m == Registry[typed.ctor].dataMembers[i]
               on == PreserveNullFor(SerializerUsed, Registry[typed.ctor].options, m.options)
               back == PreserveNullFor(DeserializerUsed, Registry[typed.ctor].options,
                                       m.options)
               v == Get(typed.f, m.key)
           IN  /\ (v \in {Null, Undef} /\ ~on) => ~HasKey(plain.v.f, m.name)
               /\ (v = Null /\ on) =>
                    /\ HasKey(plain.v.f, m.name)
                    /\ Get(plain.v.f, m.name) = Null
                    /\ (pc = "done" /\ back /\ IsKeyed(revived.v)) =>
                         /\ HasKey(revived.v.f, m.key)
                         /\ Get(revived.v.f, m.key) = Null

\* A Note whose text is null (dropped: the settings leave preserveNull off)
\* and whose tag is null (kept: the member turns preserveNull on) was parsed
\* back with tag null and no text.
C9_Witness ==
    /\ pc = "done"
    /\ IsKeyed(typed)
    /\ typed.ctor = "Note"
    /\ rootType = Concrete("Note")
    /\ SerializerUsed.options = NoOptions
    /\ DeserializerUsed.options = NoOptions
    /\ Get(typed.f, "text") = Null /\ HasKey(typed.f, "text")
    /\ Get(typed.f, "tag") = Null /\ HasKey(typed.f, "tag")
    /\ plain.v = Obj("Object", <<(<<"tag", Null>>)>>)
    /\ revived.v = Obj("Note", <<(<<"tag", Null>>)>>)

----------------------------------------------------------------------------
(* Arrays of arrays. *)

RECURSIVE SameNested(_, _)
\* y has the lengths of x at every depth and the leaves of x at their places.
SameNested(x, y) ==
    IF IsArray(x)
    THEN /\ IsArray(y)
         /\ Len(y.e) = Len(x.e)
         /\ \A i \in 1..Len(x.e) : SameNested(x.e[i], y.e[i])
    ELSE SameMembers(x, y)

\* C10: an array of arrays of entities, converted and parsed back, has the
\* same length at every depth, empty inner arrays included, and every entity
\* at its place.
C10_NestedArrays ==
    (pc = "done" /\ IsArray(typed) /\ rootType.kind = "array"
       /\ rootType.elementType.kind = "array")
      => SameNested(typed, revived.v)

\* [[], [a, b]] was converted and parsed back.
C10_Witness ==
    /\ pc = "done"
    /\ rootType = ArrayT(SimpleArrayT)
    /\ typed = Arr(<<Arr(<<>>), Arr(<<SimpleA, SimpleB>>)>>)
    /\ plain.v = Arr(<<Arr(<<>>), Arr(<<Plain(SimpleA.f), Plain(SimpleB.f)>>)>>)
    /\ revived.v = typed

----------------------------------------------------------------------------
(* The entry points and the errors of the engine. *)

\* The entry point whose result is r caught the error the engine raised, gave
\* it to the error handler once, as the last thing it did, and returned.
Contained(r) ==
    /\ r.exc = NoExc
    /\ Len(SelectSeq(Errors(r), LAMBDA x : x.err = r.engineExc)) = 1
    /\ r.log[Len(r.log)] = [ev |-> "error", err |-> r.engineExc]

\* The run is one of a TypedJSON instance, and the last method called on it
\* was the given one, under an error handler of the given kind.
LastCalled(method, errorHandler) ==
    /\ IsRootClass(rootType)
    /\ calls # <<>>
    /\ calls[Len(calls)].method = method
    /\ calls[Len(calls)].errorHandler = errorHandler

\* C11: with an error handler that returns, when the engine raises during
\* parse, toPlainJson or stringify of a TypedJSON instance, the entry point
\* gives the error to the handler exactly once and does not throw; parse and
\* toPlainJson return undefined and stringify returns the empty string.
C11_Contained ==
    /\ (LastCalled("toPlainJson", "log") /\ plain.engineExc # NoExc)
         => (Contained(plain) /\ plain.v = Undef)
    /\ (LastCalled("parse", "log") /\ revived.engineExc # NoExc)
         => (Contained(revived) /\ revived.v = Undef)
    /\ (LastCalled("stringify", "log") /\ text.engineExc # NoExc)
         => (Contained(text) /\ text.v = Str(""))

\* stringify of a Simple on the instance made for Simple: the Serializer
\* raised on the descriptor it was given, the error was given to the handler
\* once and the text is empty.
C11_Witness ==
    /\ LastCalled("stringify", "log")
    /\ rootType = Ctor("Simple")
    /\ typed = SimpleA
    /\ text.engineExc = TypeError("Right-hand side of 'instanceof' is not an object")
    /\ Errors(text) = <<[ev |-> "error", err |-> text.engineExc]>>
    /\ text.exc = NoExc
    /\ text.v = Str("")

----------------------------------------------------------------------------
(* An error handler that throws. *)

\* No call of convertSingleValue follows the first call of the error handler.
NothingAfterFirstError(r) ==
    \A i, j \in 1..Len(r.log) :
        (r.log[i].ev = "error" /\ i < j) => r.log[j].ev # "convert"

\* The call whose result is r threw, and converted nothing after the error.
Escalated(r) ==
    /\ r.exc # NoExc
    /\ r.v = Undef
    /\ NothingAfterFirstError(r)

\* C12: with an error handler that throws, a conversion in which the handler
\* is called, at the root or at any depth inside arrays, sets, maps and
\* entities, ends with the exception leaving the top-level call, and no
\* element or member is converted after the handler was called; this holds
\* of the calls of the two engines and of parse and toPlainJson of a TypedJSON
\* instance.
C12_Escalation ==
    /\ (Materialized /\ SerializerUsed.errorHandler = "throw" /\ Errors(plain) # <<>>)
         => Escalated(plain)
    /\ (pc = "done" /\ rootType.kind # "constructor"
          /\ DeserializerUsed.errorHandler = "throw" /\ Errors(revived) # <<>>)
         => Escalated(revived)
    /\ (LastCalled("toPlainJson", "throw") /\ Errors(plain) # <<>>) => Escalated(plain)
    /\ (LastCalled("parse", "throw") /\ Errors(revived) # <<>>) => Escalated(revived)

\* The call whose result is r converted the first value and never the second.
ConvertedOnlyFirst(r, first, second) ==
    /\ \E i \in 1..Len(r.log) : r.log[i].ev = "convert" /\ r.log[i].value = first
    /\ \A i \in 1..Len(r.log) : ~(r.log[i].ev = "convert" /\ r.log[i].value = second)

\* The run converts a plain array of one Shelf with a Deserializer whose
\* handler throws.
ShelfRevival ==
    /\ pc = "done"
    /\ DeserializerUsed.errorHandler = "throw"
    /\ rootType = ArrayT(Concrete("Shelf"))
    /\ typed = Undef

\* A plain array of one Shelf whose set 'tags' is [bad, good], given to the
\* Deserializer with a handler that throws: the error raised by a member of
\* the Simple inside the set inside the Shelf inside the array was given to
\* the handler by the loop of convertAsSet, what the handler threw was given
\* to it again by the loop of convertAsArray and left the call; the second
\* element of the set, the map and the rows were never converted.
C12_Witness ==
    /\ ShelfRevival
    /\ Get(plain.v.e[1].f, "tags") = Arr(<<PlainSimpleBad, PlainSimple>>)
    /\ Len(Errors(revived)) = 2
    /\ revived.exc = TypeError("Could not deserialize Simple.strProp: expected"
                               \o " 'String', got 'Number'.")
    /\ revived.v = Undef
    /\ ConvertedOnlyFirst(revived, PlainSimpleBad, PlainSimple)

\* The same inside the entry loop of a map of an entity: the value of the
\* first entry of 'byName' is a mistyped Simple, and the second entry and the
\* rows were never converted.
C12_InMapEntry ==
    /\ ShelfRevival
    /\ Get(plain.v.e[1].f, "tags") = Arr(<<PlainSimple>>)
    /\ Len(Get(plain.v.e[1].f, "byName").e) = 2
    /\ Len(Errors(revived)) = 2
    /\ revived.exc # NoExc
    /\ Len(SelectSeq(revived.log, LAMBDA e : e.ev = "convert" /\ e.value = PlainSimple)) = 1
    /\ \A i \in 1..Len(revived.log) :
          revived.log[i].ev = "convert" => revived.log[i].name # "Shelf.rows"

\* The same inside a row of a two-dimensional array: the first element of the
\* first row is a mistyped Simple; the loop of the row gave the error to the
\* handler, the loop of the rows gave what the handler threw to the handler
\* again, and the rest of the row and the second row were never converted.
C12_InInnerArray ==
    /\ pc = "done"
    /\ DeserializerUsed.errorHandler = "throw"
    /\ rootType = ArrayT(ArrayT(Concrete("Simple")))
    /\ typed = Undef
    /\ plain.v = Arr(<<Arr(<<PlainSimpleBad, PlainSimple>>), Arr(<<PlainSimple>>)>>)
    /\ Len(Errors(revived)) = 2
    /\ revived.exc # NoExc
    /\ ConvertedOnlyFirst(revived, PlainSimpleBad, PlainSimple)

\* The same in the Serializer: an array of one Shelf whose set holds a text
\* and a Simple; the mismatch of the text was given to the handler inside the
\* loop of convertAsSet, and the Simple, the map and the rows were never
\* converted.
C12_InSerializedSet ==
    /\ Materialized
    /\ SerializerUsed.errorHandler = "throw"
    /\ rootType = ArrayT(Concrete("Shelf"))
    /\ Get(typed.e[1].f, "tags") = SetV(<<Str("a"), SimpleA>>)
    /\ Len(Errors(plain)) = 1
    /\ plain.exc # NoExc
    /\ ConvertedOnlyFirst(plain, Str("a"), SimpleA)

----------------------------------------------------------------------------
(* Plain objects without metadata. *)

\* C13: a plain object converted against Object, whose fields hold strings,
\* numbers, booleans, null, nested objects or arrays, comes back as a plain
\* object with the same keys and equal values, and nothing is thrown.
C13_AsClaimed ==
    (pc = "done" /\ typed = Undef /\ rootType = Concrete("Object")
       /\ plain.v \in RawObjects)
      => /\ revived.exc = NoExc
         /\ Errors(revived) = <<>>
         /\ revived.v = plain.v

\* The fields for which the passthrough does hold: strings, numbers,
\* booleans and nested objects of these.
C13_Passthrough ==
    /\ pc = "done" /\ typed = Undef /\ rootType = Concrete("Object")
    /\ plain.v = Plain(<<<<"inner", Plain(<<<<"language_tag", Str("a")>>>>)>>>>)
    /\ revived.exc = NoExc
    /\ revived.v = plain.v

\* x is an instance of a class that was never marked with @jsonObject.
Unmarked(x) ==
    x.k = "object" /\ x.ctor \notin Builtins /\ ~getFromConstructor(x.ctor).defined

\* The plain form of an unmarked x where a value of class expected was
\* expected, with the default emitter: a copy of x's own fields, and __type
\* with the name of x's class when x is of another class than expected.
CloneWithHint(x, expected) ==
    Obj("Object", IF x.ctor = expected THEN x.f
                  ELSE Put(x.f, "__type", Str(nameof(x.ctor))))

\* C14, as stated: the plain form of an instance of a class without metadata
\* holds exactly the instance's own fields, and no type hint, also when the
\* instance is of a subclass of the expected class.
C14_AsClaimed ==
    (pc = "plain" /\ typed # Undef /\ rootType.kind = "concrete" /\ Unmarked(typed)
       /\ isSubtypeOf(typed.ctor, rootType.ctor))
      => /\ plain.exc = NoExc
         /\ plain.v = Obj("Object", typed.f)

\* C14, amended: the plain form of an instance of a class without metadata
\* is a new object with the instance's own fields and their values; the type
\* hint emitter is still called on it, so with the default emitter it also
\* holds __type, the name of the instance's class, when that class is not the
\* expected one, and no hint when it is.  Checked at the root (a Blob where a
\* Shape is expected), for a member (Drawing.main) and for the elements of an
\* array of Object (Translations.localization).
C14_UntypedClone ==
    (pc = "plain" /\ typed # Undef /\ SerializerUsed.typeHintEmitter = "default")
      => /\ (rootType.kind = "concrete" /\ Unmarked(typed)
               /\ isSubtypeOf(typed.ctor, rootType.ctor))
              => (plain.exc = NoExc /\ plain.v = CloneWithHint(typed, rootType.ctor))
         /\ (rootType = Concrete("Drawing") /\ typed.ctor = "Drawing"
               /\ Unmarked(Get(typed.f, "main")))
              => (plain.exc = NoExc
                  /\ Get(plain.v.f, "main") = CloneWithHint(Get(typed.f, "main"), "Shape"))
         /\ (rootType = Concrete("Translations") /\ typed.ctor = "Translations")
              => (plain.exc = NoExc
                  /\ LET from == Get(typed.f, "localization").e
                         to == Get(plain.v.f, "localization").e
                     IN  /\ Len(to) = Len(from)
                         /\ \A i \in 1..Len(from) :
                               to[i] = CloneWithHint(from[i], "Object"))

\* A Blob, a subclass of Shape without metadata, was converted where a Shape
\* was expected: the result is the Blob's fields and __type = "Blob".
C14_Witness ==
    /\ pc = "plain" /\ rootType = Concrete("Shape") /\ typed # Undef
    /\ typed.k = "object" /\ typed.ctor = "Blob"
    /\ SerializerUsed.typeHintEmitter = "default"
    /\ plain.exc = NoExc
    /\ plain.v = Obj("Object", Put(typed.f, "__type", Str("Blob")))
    /\ plain.v.f # typed.f

----------------------------------------------------------------------------
(* The type-hint emitter and the type resolver in force. *)

RECURSIVE CountEntities(_), CountIn(_)
\* The keyed objects in a plain value, the value itself included.
CountEntities(v) ==
    IF v.k # "object" THEN 0
    ELSE IF IsKeyed(v) THEN 1 + CountIn([i \in 1..Len(v.f) |-> v.f[i][2]])
    ELSE CountIn(v.e)
CountIn(q) ==
    IF q = <<>> THEN 0 ELSE CountEntities(Head(q)) + CountIn(Tail(q))

Emits(r) == SelectSeq(r.log, LAMBDA x : x.ev = "emit")

\* The emitter for x: the one of the metadata of x's class, else the one
\* the serializer was configured with.
EmitterFor(x) ==
    IF getFromConstructor(x.ctor).defined
       /\ getFromConstructor(x.ctor).typeHintEmitter # "none"
    THEN getFromConstructor(x.ctor).typeHintEmitter
    ELSE SerializerUsed.typeHintEmitter

\* Every declared member of x was converted before position i of the log.
MembersDoneBefore(r, i, x) ==
    getFromConstructor(x.ctor).defined =>
      \A m \in 1..Len(getFromConstructor(x.ctor).dataMembers) :
        \E j \in 1..(i - 1) :
          r.log[j] = Converting(nameof(x.ctor) \o "."
                                  \o getFromConstructor(x.ctor).dataMembers[m].key,
                                Get(x.f, getFromConstructor(x.ctor).dataMembers[m].key))

\* C15: for every entity that is materialized one emitter is called, once,
\* after all declared members were written to the output object: the emitter
\* of the metadata of the source's class when it declares one, else the
\* emitter the serializer is configured with (the default one unless set).
C15_Emitter ==
    (pc = "plain" /\ typed # Undef /\ rootType.kind = "concrete"
       /\ rootType.ctor \notin DOMAIN serializationStrategy)
      => /\ \A i \in 1..Len(plain.log) :
               plain.log[i].ev = "emit"
                 => /\ plain.log[i].emitter = EmitterFor(plain.log[i].source)
                    /\ MembersDoneBefore(plain, i, plain.log[i].source)
         /\ (plain.engineExc = NoExc /\ plain.v # Undef)
              => /\ plain.log[Len(plain.log)].ev = "emit"
                 /\ plain.log[Len(plain.log)].source = typed
                 /\ plain.v.f = TypeHintEmitter(EmitterFor(typed),
                                                plain.log[Len(plain.log)].target, typed,
                                                rootType.ctor,
                                                getFromConstructor(typed.ctor))
         /\ (plain.engineExc = NoExc /\ rootType.ctor # "Translations")
              => Len(Emits(plain)) = CountEntities(plain.v)

\* A Pair was materialized with the default emitter configured: the member
\* of the first hierarchy got the emitter of its class, the Shape the
\* default one, the member of the second hierarchy the emitter of its class,
\* and the Pair itself the default one, each once and in this order.
C15_Witness ==
    /\ pc = "plain" /\ rootType = Concrete("Pair") /\ IsKeyed(typed)
    /\ SerializerUsed.typeHintEmitter = "default"
    /\ plain.engineExc = NoExc
    /\ Len(Emits(plain)) = 4
    /\ [i \in 1..4 |-> Emits(plain)[i].emitter]
         = <<"staticType", "default", "hint", "default">>
    /\ Keys(plain.v.f) = {"one", "shape", "two"}
    /\ HasKey(Get(plain.v.f, "two").f, "hint")

Resolves(r) == SelectSeq(r.log, LAMBDA x : x.ev = "resolve")

\* The resolver for an object where a value of class expected is expected:
\* the one of the metadata of that class, else the one the deserializer was
\* configured with.
ResolverFor(expected) ==
    IF getFromConstructor(expected).defined
       /\ getFromConstructor(expected).typeResolver # "none"
    THEN getFromConstructor(expected).typeResolver
    ELSE DeserializerUsed.typeResolver

\* C16: every object that is converted back is resolved by the resolver of
\* the metadata of its expected class when it declares one, else by the
\* resolver the deserializer is configured with (by default the lookup of
\* __type in the known types); the resolver of a class is not used for the
\* members of its instances or for their siblings, so the members of a Pair
\* are each resolved by the resolver of their own hierarchy, although Pair
\* declares a resolver itself.
C16_Resolver ==
    pc = "done"
      => /\ \A i \in 1..Len(revived.log) :
               revived.log[i].ev = "resolve"
                 => /\ revived.log[i].resolver = ResolverFor(revived.log[i].expected)
                    /\ revived.log[i].resolver = "staticType"
                         => revived.log[i].resolved
                              = staticTypeResolver(revived.log[i].source)
                    /\ revived.log[i].resolver = "hint"
                         => revived.log[i].resolved = hintResolver(revived.log[i].source)
                    /\ (revived.log[i].resolver = "default"
                          /\ ~HasKey(PropsOf(revived.log[i].source), "__type"))
                         => revived.log[i].resolved = ""
         /\ (rootType = Concrete("Pair") /\ revived.engineExc = NoExc
               /\ revived.v # Undef /\ plain.v.k = "object")
              => /\ Get(revived.v.f, "one") # Undef
                      => Get(revived.v.f, "one").ctor
                           = staticTypeResolver(Get(plain.v.f, "one"))
                 /\ Get(revived.v.f, "two") # Undef
                      => Get(revived.v.f, "two").ctor
                           = hintResolver(Get(plain.v.f, "two"))

\* A Pair was converted back with the default resolver configured: the
\* Pair and its first member were resolved by staticType, its Shape by the
\* default resolver, and its last member by the resolver of its own
\* hierarchy.
C16_Witness ==
    /\ pc = "done" /\ rootType = Concrete("Pair")
    /\ DeserializerUsed.typeResolver = "default"
    /\ revived.engineExc = NoExc /\ revived.v # Undef
    /\ [i \in 1..Len(Resolves(revived)) |-> Resolves(revived)[i].resolver]
         = <<"staticType", "staticType", "default", "hint">>
    /\ Get(revived.v.f, "one").ctor = "ConcreteOne"
    /\ Get(revived.v.f, "shape").ctor = "Circle"
    /\ Get(revived.v.f, "two").ctor = "ConcreteTwo"

----------------------------------------------------------------------------
(* A member that holds a value of another type than declared. *)

\* C17: when a plain object is converted back to a Simple and its strProp
\* holds a number where a String is declared, the error is reported to the
\* handler, the instance is returned without strProp, and numProp is still
\* converted.
C17_AsClaimed ==
    (pc = "done" /\ typed = Undef /\ rootType = Concrete("Simple")
       /\ DeserializerUsed.errorHandler = "log"
       /\ IsKeyed(plain.v)
       /\ Get(plain.v.f, "strProp").k = "number"
       /\ Get(plain.v.f, "numProp").k = "number")
      => /\ Len(Errors(revived)) = 1
         /\ revived.v # Undef
         /\ revived.v.ctor = "Simple"
         /\ revived.v.f = <<(<<"numProp", Get(plain.v.f, "numProp")>>)>>

\* The members of a sequence.
MembersOf(q) == {q[i] : i \in 1..Len(q)}

\* The declared members of x that hold a defined value which is not an
\* instance of the declared type.
MistypedKeys(x) ==
    {m.key : m \in {n \in MembersOf(getFromConstructor(x.ctor).dataMembers) :
                      /\ isValueDefined(Get(x.f, n.key))
                      /\ ~isInstanceOf(Get(x.f, n.key), n.type.ctor)}}

\* x without the properties of the given keys.
Without(x, keys) == [x EXCEPT !.f = SelectSeq(x.f, LAMBDA p : p[1] \notin keys)]

\* What the Serializer of the run makes of the typed value without the keys,
\* and the Deserializer of the run of the plain value without the keys.
SerializedWithout(keys) ==
    Uncaught(Ser_convertSingleValue(SerializerUsed, Without(typed, keys), rootType,
                                    "object", NoOptions))
DeserializedWithout(keys) ==
    Uncaught(Des_convertSingleValue(DeserializerUsed, Without(plain.v, keys),
                                    rootType, mapKnownTypes(settings.knownTypes), "object",
                                    NoOptions))

\* The error convertSingleValue reports for member key of x.
MismatchOf(x, key) ==
    LET m == CHOOSE n \in MembersOf(getFromConstructor(x.ctor).dataMembers) : n.key = key
    IN  [ev |-> "error",
         err |-> TypeError("Could not serialize '" \o nameof(x.ctor) \o "." \o key
                           \o "': expected '" \o nameof(m.type.ctor) \o "', got '"
                           \o nameof(CtorOf(Get(x.f, key))) \o "'.")]

\* x is an instance, of the expected class, whose declared members are no
\* collections.
PlainMembers(x, expected) ==
    /\ IsKeyed(x) /\ x.ctor = expected.ctor
    /\ getFromConstructor(x.ctor).defined
    /\ \A m \in MembersOf(getFromConstructor(x.ctor).dataMembers) : m.type.kind = "concrete"

\* C18: when an entity with metadata is materialized with an error handler
\* that returns, and a declared member that is no collection holds a defined
\* value that is not an instance of the declared type, the handler is called
\* once for that member, the output has no key for it, and the output is what
\* it would be had the member been absent.
C18_LocalMismatch ==
    (pc = "plain" /\ typed # Undef /\ rootType.kind = "concrete"
       /\ SerializerUsed.errorHandler = "log" /\ PlainMembers(typed, rootType)
       /\ MistypedKeys(typed) # {})
      => /\ plain.engineExc = NoExc
         /\ plain.v # Undef
         /\ \A key \in MistypedKeys(typed) :
               /\ ~HasKey(plain.v.f, key)
               /\ Len(SelectSeq(plain.log, LAMBDA x : x = MismatchOf(typed, key))) = 1
         /\ plain.v = SerializedWithout(MistypedKeys(typed)).v
         /\ Len(Errors(plain))
              = Cardinality(MistypedKeys(typed))
                + Len(Errors(SerializedWithout(MistypedKeys(typed))))

\* A Simple whose strProp holds a number was materialized: one error, and
\* the output holds numProp only.
C18_Witness ==
    /\ pc = "plain" /\ rootType = Concrete("Simple")
    /\ SerializerUsed.errorHandler = "log"
    /\ typed = Obj("Simple", <<(<<"strProp", Num(0)>>), (<<"numProp", Num(1)>>)>>)
    /\ Len(Errors(plain)) = 1
    /\ plain.v = Obj("Object", <<(<<"numProp", Num(1)>>)>>)

----------------------------------------------------------------------------
(* A type hint that names no subtype of the expected type. *)

\* The resolver named a type that is not the expected one or a subtype.
InvalidHint(e) == e.resolved # "" /\ ~isSubtypeOf(e.resolved, e.expected)

\* The instance of class ctor made of the declared members of ctor that the
\* plain object x holds a value for.
BuiltFrom(x, ctor) ==
    LET held == SelectSeq(getFromConstructor(ctor).dataMembers,
                          LAMBDA m : isValueDefined(Get(x.f, m.key)))
    IN  Obj(ctor, [i \in 1..Len(held) |-> <<held[i].key, Get(x.f, held[i].key)>>])

\* Every declared member of ctor is a String or a Number, and x holds a
\* value of that type for it, or (the member not being required) none.
WellTyped(x, ctor) ==
    \A m \in MembersOf(getFromConstructor(ctor).dataMembers) :
        /\ m.type.kind = "concrete" /\ m.type.ctor \in {"String", "Number"}
        /\ Get(x.f, m.key) # Null
        /\ m.isRequired => isValueDefined(Get(x.f, m.key))
        /\ isValueDefined(Get(x.f, m.key)) => isInstanceOf(Get(x.f, m.key), m.type.ctor)

\* The first declared member of class ctor.
FirstMember(ctor) == getFromConstructor(ctor).dataMembers[1]

\* Class ctor names neither an initializer nor an onDeserialized method: its
\* instances are made with new and the converted members only.
MadeOfMembers(ctor) ==
    /\ getFromConstructor(ctor).initializerCallback = "none"
    /\ getFromConstructor(ctor).onDeserializedMethodName = ""

\* C19: when the resolver names a type that is neither the expected type nor
\* a subtype of it, nothing is reported to the error handler for it, the
\* conversion goes on with the members of the expected type (the first one
\* is converted next, or, having neither a type nor a deserialization
\* function, refused next), and the result is an instance of the expected
\* type made of those members (for a class without initializer and without
\* onDeserialized method, which act after the members); with the default
\* resolver the outcome is the one of the same object without __type.
C19_InvalidHint ==
    (pc = "done" /\ RootedAtClass(rootType) /\ IsKeyed(plain.v)
       /\ Len(revived.log) >= 2 /\ revived.log[2].ev = "resolve"
       /\ revived.log[2].source = plain.v
       /\ InvalidHint(revived.log[2]))
      => /\ FirstMember(rootType.ctor).type # NoType
              => /\ Len(revived.log) >= 3
                 /\ revived.log[3]
                      = Converting(nameof(rootType.ctor) \o "."
                                     \o FirstMember(rootType.ctor).key,
                                   Get(plain.v.f, FirstMember(rootType.ctor).key))
         /\ FirstMember(rootType.ctor).type = NoType
              => /\ Len(revived.log) = 2
                 /\ revived.engineExc
                      = TypeError("Cannot deserialize " \o nameof(rootType.ctor) \o "."
                                  \o FirstMember(rootType.ctor).key
                                  \o " there is no constructor nor deserialization function to use.")
         /\ (revived.v # Undef
               /\ MadeOfMembers(rootType.ctor))
              => /\ revived.v.ctor = rootType.ctor
                 /\ Keys(revived.v.f)
                      \subseteq {m.key : m \in MembersOf(getFromConstructor(rootType.ctor).dataMembers)}
         /\ (WellTyped(plain.v, rootType.ctor)
               /\ MadeOfMembers(rootType.ctor))
              => /\ Errors(revived) = <<>>
                 /\ revived.v = BuiltFrom(plain.v, rootType.ctor)
         /\ revived.log[2].resolver = "default"
              => /\ revived.v
                      = DeserializedWithout({"__type"}).v
                 /\ Errors(revived)
                      = Errors(DeserializedWithout({"__type"}))

\* A plain object with __type = "Square" was converted where a Circle is
\* expected, Square being a known type: the result is a Circle, and no error
\* was reported.
C19_Witness ==
    /\ pc = "done" /\ rootType = Concrete("Circle")
    /\ plain.v = Plain(<<(<<"__type", Str("Square")>>), (<<"id", Num(0)>>),
                         (<<"r", Num(1)>>)>>)
    /\ revived.log[2].ev = "resolve" /\ revived.log[2].resolved = "Square"
    /\ Errors(revived) = <<>>
    /\ revived.v = Obj("Circle", <<(<<"id", Num(0)>>), (<<"r", Num(1)>>)>>)

----------------------------------------------------------------------------
(* Members declared without a type, and collections declared without the   *)
(* type of their elements, keys or values.                                 *)

Loose == {"LooseMember", "LooseArray", "LooseSet", "LooseMapKey", "LooseMapValue"}

\* C20: a member declared with neither a type nor a conversion function of
\* its own, and an array, set or map declared without the type of its
\* elements, keys or values, make both engines throw at that member,
\* whatever the error handler does: the problem is not reported to the
\* handler with the conversion going on with a substitute value.
C20_AsClaimed ==
    /\ (pc = "plain" /\ typed # Undef /\ rootType.kind = "concrete"
          /\ rootType.ctor \in Loose /\ typed.ctor = rootType.ctor)
         => (plain.engineExc # NoExc /\ plain.v = Undef)
    /\ (pc = "done" /\ typed = Undef /\ rootType.kind = "concrete"
          /\ rootType.ctor \in Loose /\ IsKeyed(plain.v))
         => (revived.engineExc # NoExc /\ revived.v = Undef)

----------------------------------------------------------------------------
(* How often the error handler is called. *)

\* The items of a plain Album that hold a number as strProp.
BadItems(json) ==
    {i \in 1..Len(Get(json.f, "items").e) : Get(json.f, "items").e[i] = PlainSimpleBad}

\* C21: during one parse the error handler is called once for each problem
\* that is met, whether the handler returns or throws, and never twice with
\* the same error.  With a handler that returns, a plain Album has one
\* problem for each item that is no Simple; with a handler that throws the
\* conversion ends at the first problem, so the handler is called at most
\* once.
C21_AsClaimed ==
    (pc = "done" /\ typed = Undef /\ RootedAtClass(rootType))
      => /\ (DeserializerUsed.errorHandler = "log" /\ rootType = Concrete("Album")
               /\ IsKeyed(plain.v))
              => Len(Errors(revived)) = Cardinality(BadItems(plain.v))
         /\ DeserializerUsed.errorHandler = "throw"
              => Len(Errors(revived)) <= 1

----------------------------------------------------------------------------
(* Initializer callbacks. *)

\* The initializer callback of Made fails for the plain object json: it
\* throws, returns null, or returns an object of another class.
Fails(json) == Get(json.f, "mode") \in {Str("throw"), Str("null"), Str("wrong")}

\* What a plain Made is to be converted to: nothing when the callback fails,
\* else the instance the callback returned with the members assigned.
MadeOf(json) ==
    IF Fails(json) THEN Undef
    ELSE Obj(IF Get(json.f, "mode") = Str("sub") THEN "MadeChild" ELSE "Made",
             PutAll(<<(<<"made", Bool(TRUE)>>)>>, json.f))

\* What a plain Kit is to be converted to.
KitOf(json) ==
    Obj("Kit",
        (IF Fails(Get(json.f, "made")) THEN <<>>
         ELSE <<(<<"made", MadeOf(Get(json.f, "made"))>>)>>)
        \o <<(<<"items", Arr([i \in 1..Len(Get(json.f, "items").e) |->
                               MadeOf(Get(json.f, "items").e[i])])>>),
             (<<"label", Get(json.f, "label")>>)>>)

\* The plain Mades in a plain Made or Kit.
MadesIn(json) ==
    IF HasKey(json.f, "mode") THEN <<json>>
    ELSE <<Get(json.f, "made")>> \o Get(json.f, "items").e

Inits(r) == SelectSeq(r.log, LAMBDA x : x.ev = "init")
Hooks(r) == SelectSeq(r.log, LAMBDA x : x.ev = "hook")

\* C22: the initializer callback of the metadata is called with the object
\* of the converted members and the plain source.  When it throws, returns a
\* falsy value or returns no instance of the class, the error is given to
\* the error handler, the object is converted to undefined and its
\* onDeserialized method is not called, and the elements and members next to
\* it are still converted; otherwise the instance it returns gets the members
\* and is the result.  (The error handler is one that returns.)
C22_Initializer ==
    (pc = "done" /\ typed = Undef /\ rootType.kind = "concrete"
       /\ rootType.ctor \in {"Made", "Kit"} /\ DeserializerUsed.errorHandler = "log")
      => /\ revived.engineExc = NoExc
         /\ revived.v = IF rootType.ctor = "Made" THEN MadeOf(plain.v) ELSE KitOf(plain.v)
         /\ Len(Inits(revived)) = Len(MadesIn(plain.v))
         /\ \A i \in 1..Len(MadesIn(plain.v)) :
               Inits(revived)[i] = Initializing("byMode", MadesIn(plain.v)[i].f,
                                                MadesIn(plain.v)[i])
         /\ Len(Errors(revived)) = Len(SelectSeq(MadesIn(plain.v), Fails))
         /\ Len(Hooks(revived))
              = Len(SelectSeq(MadesIn(plain.v), LAMBDA json : ~Fails(json)))
         /\ \A i \in 1..Len(Hooks(revived)) :
               /\ Hooks(revived)[i].name = "ready"
               /\ Hooks(revived)[i].object
                    = MadeOf(SelectSeq(MadesIn(plain.v), LAMBDA json : ~Fails(json))[i])

\* A Kit whose member made the callback throws for, and whose items are one
\* the callback returns an instance for and one it returns null for: two
\* errors, one call of onDeserialized, and the label was still converted.
C22_Witness ==
    /\ pc = "done" /\ rootType = Concrete("Kit") /\ DeserializerUsed.errorHandler = "log"
    /\ Get(plain.v.f, "made") = PlainMade("throw")
    /\ Get(plain.v.f, "items") = Arr(<<PlainMade("new"), PlainMade("null")>>)
    /\ Len(Errors(revived)) = 2
    /\ Len(Hooks(revived)) = 1
    /\ ~HasKey(revived.v.f, "made")
    /\ Get(revived.v.f, "items").e[1].ctor = "Made"
    /\ Get(revived.v.f, "items").e[2] = Undef
    /\ Get(revived.v.f, "label") = Str("a")

----------------------------------------------------------------------------
(* Required members. *)

\* The conversion of the member of the plain object json leaves a value:
\* the member holds a defined value, or null with preserveNull set.
Kept(json, member) ==
    \/ isValueDefined(Get(json.f, member.key))
    \/ (getOptionValue(DeserializerUsed.options) /\ Get(json.f, member.key) = Null)

MissingRequired(ctor, member) ==
    [ev |-> "error",
     err |-> TypeError("Missing required member '" \o nameof(ctor) \o "."
                       \o member.key \o "'.")]

\* The instance of ctor to expect for json: the members that leave a value,
\* in the order they are declared.
ExpectFields(ctor, json) ==
    LET kept == SelectSeq(getFromConstructor(ctor).dataMembers,
                          LAMBDA member : Kept(json, member))
    IN  Obj(ctor, [i \in 1..Len(kept) |-> <<kept[i].key, Get(json.f, kept[i].key)>>])

\* The errors to expect for json: one for each required member that leaves
\* no value, in the order they are declared.
ExpectMissing(ctor, json) ==
    LET missing == SelectSeq(getFromConstructor(ctor).dataMembers,
                             LAMBDA member : member.isRequired /\ ~Kept(json, member))
    IN  [i \in 1..Len(missing) |-> MissingRequired(ctor, missing[i])]

\* C23: when a required member is converted to no value (undefined, or null
\* without preserveNull), the error handler is called once with a "Missing
\* required member" error for it, the other members are still converted and
\* the instance is returned; a member that is not required and is converted
\* to no value causes no error.  (The error handler is one that returns.)
C23_MissingRequired ==
    (pc = "done" /\ typed = Undef /\ rootType = Concrete("Ticket")
       /\ DeserializerUsed.errorHandler = "log")
      => /\ revived.engineExc = NoExc
         /\ revived.v = ExpectFields("Ticket", plain.v)
         /\ Errors(revived) = ExpectMissing("Ticket", plain.v)

\* A Ticket whose required code is null, without preserveNull: one error,
\* for code, and the Ticket holds note and count.
C23_Witness ==
    /\ pc = "done" /\ rootType = Concrete("Ticket") /\ DeserializerUsed.errorHandler = "log"
    /\ ~getOptionValue(DeserializerUsed.options)
    /\ plain.v = Plain(<<(<<"code", Null>>), (<<"note", Str("b")>>), (<<"count", Num(0)>>)>>)
    /\ Errors(revived) = <<MissingRequired("Ticket", [key |-> "code"])>>
    /\ revived.v = Obj("Ticket", <<(<<"note", Str("b")>>), (<<"count", Num(0)>>)>>)

----------------------------------------------------------------------------
(* The hooks of a class. *)

\* Where the hook of the given name is found for an instance of ctor: as a
\* method of the instance, else as a static method of the class.
HookOn(ctor, name) ==
    IF name \in Methods(ctor) THEN "instance"
    ELSE IF name \in Statics(ctor) THEN "static" ELSE "none"

NotAMethod(kind, ctor, name) ==
    [ev |-> "error",
     err |-> TypeError(kind \o " callback '" \o nameof(ctor) \o "." \o name
                       \o "' is not a method.")]

\* C24: when the metadata of the source's class names a beforeSerialization
\* method, it is called once, without arguments, before any declared member
\* of the instance is read: the method of the instance when it has one of
\* that name, else the static method of its class; when there is neither, an
\* error is given to the error handler and (the handler returning) the
\* members are still written (next to what the type-hint emitter wrote).
C24_BeforeHook ==
    (pc = "plain" /\ typed # Undef /\ rootType.kind = "concrete"
       /\ rootType.ctor \in HookClasses /\ typed.ctor = rootType.ctor)
      => /\ plain.log[1] = Converting("object", typed)
         /\ plain.log[2]
              = IF HookOn(typed.ctor, "prepare") = "none"
                THEN NotAMethod("beforeSerialization", typed.ctor, "prepare")
                ELSE Hook("prepare", HookOn(typed.ctor, "prepare"), typed)
         /\ \A i \in 1..Len(plain.log) :
               /\ plain.log[i].ev = "hook" => i = 2
               /\ (plain.log[i].ev = "convert" /\ plain.log[i].name # "object") => i > 2
         /\ (HookOn(typed.ctor, "prepare") # "none" \/ SerializerUsed.errorHandler = "log")
              => /\ plain.engineExc = NoExc
                 /\ plain.v = Obj("Object",
                                   TypeHintEmitter(SerializerUsed.typeHintEmitter,
                                                   typed.f, typed, rootType.ctor,
                                                   getFromConstructor(typed.ctor)))
                 /\ \A key \in Keys(typed.f) : Get(plain.v.f, key) = Get(typed.f, key)
                 /\ plain.log[3] = Converting(nameof(typed.ctor) \o ".label",
                                              Get(typed.f, "label"))
                 /\ Len(Errors(plain))
                      = IF HookOn(typed.ctor, "prepare") = "none" THEN 1 ELSE 0

\* An instance of HookBoth, which has the hook as a method and as a static
\* method, was converted: the method of the instance was called, then the
\* member was read.
C24_Witness ==
    /\ pc = "plain" /\ typed # Undef /\ rootType = Concrete("HookBoth")
    /\ typed.ctor = "HookBoth"
    /\ plain.log[2] = Hook("prepare", "instance", typed)
    /\ plain.log[3] = Converting("HookBoth.label", Str("a"))
    /\ Len(Hooks(plain)) = 1
    /\ plain.v = Obj("Object", <<(<<"label", Str("a")>>)>>)

\* C25: when the metadata of the resolved class names an onDeserialized
\* method, it is called once, without arguments, after the converted members
\* were assigned to the instance and before the instance is returned: the
\* method of the instance when it has one of that name, else the static
\* method of its class; when there is neither, an error is given to the
\* error handler and (the handler returning) the instance is still returned.
C25_AfterHook ==
    (pc = "done" /\ typed = Undef /\ rootType.kind = "concrete"
       /\ rootType.ctor \in HookClasses /\ IsKeyed(plain.v))
      => /\ revived.log[Len(revived.log)]
              = IF HookOn(rootType.ctor, "ready") = "none"
                THEN NotAMethod("onDeserialized", rootType.ctor, "ready")
                ELSE Hook("ready", HookOn(rootType.ctor, "ready"),
                          Obj(rootType.ctor, plain.v.f))
         /\ Len(Hooks(revived)) = IF HookOn(rootType.ctor, "ready") = "none" THEN 0 ELSE 1
         /\ \A i \in 1..Len(revived.log) :
               revived.log[i].ev = "convert"
                 => \A j \in 1..Len(revived.log) :
                       (revived.log[j].ev = "hook"
                          \/ revived.log[j] = NotAMethod("onDeserialized", rootType.ctor,
                                                         "ready"))
                         => i < j
         /\ (HookOn(rootType.ctor, "ready") # "none" \/ DeserializerUsed.errorHandler = "log")
              => /\ revived.engineExc = NoExc
                 /\ revived.v = Obj(rootType.ctor, plain.v.f)
                 /\ Len(Errors(revived))
                      = IF HookOn(rootType.ctor, "ready") = "none" THEN 1 ELSE 0

\* A plain object was converted to a HookStatic, which has the hook as a
\* static method only: the static method was called, last, with the instance
\* holding its member.
C25_Witness ==
    /\ pc = "done" /\ typed = Undef /\ rootType = Concrete("HookStatic")
    /\ revived.v = Obj("HookStatic", <<(<<"label", Str("a")>>)>>)
    /\ revived.log[Len(revived.log)] = Hook("ready", "static", revived.v)
    /\ Len(Hooks(revived)) = 1
    /\ Errors(revived) = <<>>

----------------------------------------------------------------------------
(* Known types. *)

\* The types of a known-types map.
TypesOf(knownTypes) == {knownTypes[n] : n \in DOMAIN knownTypes}

\* The known types the metadata of a class declares.
DeclaredBy(ctor) ==
    IF getFromConstructor(ctor).defined
    THEN {getFromConstructor(ctor).knownTypes[i] :
             i \in 1..Len(getFromConstructor(ctor).knownTypes)}
    ELSE {}

\* The class a resolve event ends with: the resolved one when it is a
\* subtype of the expected one.
ResolvedOf(e) ==
    IF e.resolved # "" /\ isSubtypeOf(e.resolved, e.expected) THEN e.resolved
    ELSE e.expected

\* C26: at every object that is converted back, the known types given to the
\* resolver are those received from the parent and those the expected class
\* declares, and the known types given to the conversions of its members are
\* these and those the resolved subclass declares.  The map received is not
\* changed: the members of an object all receive the map of that object, so
\* a type made known inside one member is not known to the next member.
C26_AsClaimed ==
    (pc = "done" /\ RootedAtClass(rootType))
      => /\ \A i \in 1..Len(Resolves(revived)) :
               /\ TypesOf(Resolves(revived)[i].resolving)
                    = TypesOf(Resolves(revived)[i].received)
                      \cup DeclaredBy(Resolves(revived)[i].expected)
               /\ TypesOf(Resolves(revived)[i].members)
                    = TypesOf(Resolves(revived)[i].resolving)
                      \cup DeclaredBy(ResolvedOf(Resolves(revived)[i]))
         /\ Resolves(revived) # <<>>
              => Resolves(revived)[1].received = mapKnownTypes(settings.knownTypes)
         /\ (rootType.ctor \in {"Garage", "Pair", "Drawing", "Album", "Kit"}
               /\ Len(Resolves(revived)) >= 2)
              => /\ Resolves(revived)[2].received = Resolves(revived)[1].members
                 /\ Resolves(revived)[Len(Resolves(revived))].received
                      = Resolves(revived)[1].members
         /\ (rootType.ctor = "Garage" /\ Len(Resolves(revived)) = 4)
              => Resolves(revived)[3].received = Resolves(revived)[2].members
         /\ (rootType.ctor = "Garage" /\ revived.engineExc = NoExc /\ IsKeyed(plain.v))
              => /\ Get(revived.v.f, "spare").ctor
                      = IF HasKey(Get(plain.v.f, "spare").f, "__type")
                           /\ "Bolt" \in TypesOf(mapKnownTypes(settings.knownTypes))
                        THEN "Bolt" ELSE "Part"
                 /\ HasKey(Get(plain.v.f, "first").f, "__type")
                      => /\ Get(revived.v.f, "first").ctor = "Car"
                         /\ Get(Get(revived.v.f, "first").f, "part").ctor
                              = IF HasKey(Get(Get(plain.v.f, "first").f, "part").f,
                                          "__type")
                                THEN "Bolt" ELSE "Part"


----------------------------------------------------------------------------
(* Round trip of maps. *)

KeysOf(map) == {map.e[i][1] : i \in 1..Len(map.e)}

ValueAt(map, key) ==
    LET i == CHOOSE j \in 1..Len(map.e) : map.e[j][1] = key
    IN  map.e[i][2]

\* The map of the run holds keys of the declared key type and defined values
\* of the declared value type only, and its plain form was converted back.
MapRoundTripRun ==
    /\ pc = "done"
    /\ rootType.kind = "map"
    /\ rootType.keyType \in {StringT, NumberT}
    /\ typed.k = "object" /\ typed.ctor = "Map"
    /\ \A i \in 1..Len(typed.e) :
         /\ isInstanceOf(typed.e[i][1], rootType.keyType.ctor)
         /\ isInstanceOf(typed.e[i][2], rootType.valueType.ctor)

\* C27 as claimed: for a map whose keys are Strings or Numbers of the declared
\* key type and whose values are defined values of the declared value type,
\* converting the plain form back against the same descriptor gives a Map
\* with the same set of keys and equal values, in the array shape and in the
\* object shape.
C27_AsClaimed ==
    MapRoundTripRun
      => /\ revived.v.k = "object" /\ revived.v.ctor = "Map"
         /\ KeysOf(revived.v) = KeysOf(typed)
         /\ \A key \in KeysOf(typed) : ValueAt(revived.v, key) = ValueAt(typed, key)


----------------------------------------------------------------------------
(* Entries of a map that is converted back. *)

\* The entries read from the plain value of the run.
RawEntries == Des_rawEntries(plain.v, rootType.shape)

\* The key and the value of a raw entry, each converted on its own.
KeyOf(raw) ==
    Des_convertSingleValue(DeserializerUsed, raw.key, rootType.keyType,
                           NoKnownTypes, "object", NoOptions)

ValueOf(raw) ==
    Des_convertSingleValue(DeserializerUsed, raw.value, rootType.valueType,
                           NoKnownTypes, "object[" \o ToKey(KeyOf(raw).v) \o "]",
                           NoOptions)

\* The conversion of the key of the entry gives null or undefined.
KeyAbsent(raw) == ~raw.broken /\ ~Raised(KeyOf(raw)) /\ ~isValueDefined(KeyOf(raw).v)

\* The entry cannot be read, or the conversion of its key or of its value
\* throws.
Faulty(raw) ==
    \/ raw.broken
    \/ Raised(KeyOf(raw))
    \/ (isValueDefined(KeyOf(raw).v) /\ Raised(ValueOf(raw)))

RECURSIVE EntriesKept(_)
\* The Map made of the raw entries that are neither faulty nor without a key,
\* set in the order of the source.
EntriesKept(raws) ==
    IF raws = <<>> THEN <<>>
    ELSE LET last == raws[Len(raws)]
             before == EntriesKept(SubSeq(raws, 1, Len(raws) - 1))
         IN  IF Faulty(last) \/ KeyAbsent(last) THEN before
             ELSE MapSet(before, KeyOf(last).v, ValueOf(last).v)

\* The errors the conversions of the key and of the value of a raw entry
\* report themselves, without throwing.
ReportedWithin(raw) ==
    IF raw.broken THEN 0
    ELSE IF Raised(KeyOf(raw)) \/ ~isValueDefined(KeyOf(raw).v)
    THEN Len(Errors(KeyOf(raw)))
    ELSE Len(Errors(KeyOf(raw))) + Len(Errors(ValueOf(raw)))

RECURSIVE ErrorsExpected(_)
ErrorsExpected(raws) ==
    IF raws = <<>> THEN 0
    ELSE ErrorsExpected(Tail(raws)) + ReportedWithin(Head(raws))
           + (IF Faulty(Head(raws)) THEN 1 ELSE 0)

\* A plain value of the declared shape was converted to a Map and the call
\* returned.
MapEntryRun ==
    /\ pc = "done"
    /\ typed = Undef
    /\ rootType.kind = "map"
    /\ rootType.keyType # NoType /\ rootType.valueType # NoType
    /\ isExpectedMapShape(plain.v, rootType.shape)
    /\ revived.engineExc = NoExc

\* C28: when a plain value is converted to a Map and the call returns, the
\* Map holds every entry except those whose key or value conversion threw,
\* each of which was reported once to the error handler, and those whose
\* converted key is null or undefined, for which nothing was reported; an
\* entry whose value is null is kept, with the value null when null is
\* preserved.
C28_EntryIsolation ==
    MapEntryRun
      => /\ revived.v = MapV(EntriesKept(RawEntries))
         /\ Len(Errors(revived)) = ErrorsExpected(RawEntries)
         /\ \A i \in 1..Len(RawEntries) :
              LET raw == RawEntries[i]
              IN  (/\ ~Faulty(raw) /\ ~KeyAbsent(raw) /\ raw.value = Null
                   /\ \A j \in (i + 1)..Len(RawEntries) :
                        Faulty(RawEntries[j]) \/ KeyAbsent(RawEntries[j])
                          \/ KeyOf(RawEntries[j]).v # KeyOf(raw).v)
                    => /\ KeyOf(raw).v \in KeysOf(revived.v)
                       /\ ValueAt(revived.v, KeyOf(raw).v)
                            = IF getOptionValue(DeserializerUsed.options) THEN Null ELSE Undef

\* An array of a record whose value is no Number and a record whose value is
\* null was converted with null preserved: one error was reported and the
\* Map holds the second entry with the value null.
C28_Witness ==
    /\ MapEntryRun
    /\ rootType = MapT(StringT, NumberT, "ARRAY")
    /\ DeserializerUsed.errorHandler = "log"
    /\ getOptionValue(DeserializerUsed.options)
    /\ plain.v = Arr(<<Plain(<<(<<"key", Str("a")>>), (<<"value", Str("a")>>)>>),
                       Plain(<<(<<"key", Str("b")>>), (<<"value", Null>>)>>)>>)
    /\ revived.v = MapV(<<(<<Str("b"), Null>>)>>)
    /\ Len(Errors(revived)) = 1


----------------------------------------------------------------------------
(* The two tables of conversion functions. *)

\* A value of a type the serializer has a conversion function for was
\* converted to its plain form, and the plain form was converted back.
StrategyRun ==
    /\ pc = "done"
    /\ Materialized
    /\ rootType.ctor \in DOMAIN serializationStrategy
    /\ isInstanceOf(typed, rootType.ctor)
    /\ plain.engineExc = NoExc

\* C29 as claimed: every type the serializer has a conversion function for
\* (Date, Number, String, Boolean, ArrayBuffer, DataView, Array, Set, Map and
\* each fixed-width numeric array type) has a conversion function in the
\* deserializer as well, so the plain form of a value of such a type is
\* converted back by that function to a value of the type and is never
\* converted member by member as an object.
C29_AsClaimed ==
    StrategyRun
      => /\ rootType.ctor \in DOMAIN deserializationStrategy
         /\ \A i \in 1..Len(Resolves(revived)) :
              Resolves(revived)[i].expected \notin DOMAIN serializationStrategy
         /\ revived.engineExc = NoExc => isInstanceOf(revived.v, rootType.ctor)


----------------------------------------------------------------------------
(* Dates. *)

\* A plain value was converted against the descriptor of Date.
DateRun ==
    /\ pc = "done"
    /\ typed = Undef
    /\ rootType = Concrete("Date")

\* C30 as claimed: converting a plain value to a Date returns a Date for
\* every text and for every number of milliseconds since the epoch, of
\* either sign, and the Date is that instant; a type-mismatch error is raised
\* only for a value that is neither a text, a number nor a Date.
C30_AsClaimed ==
    DateRun
      => /\ plain.v.k \in {"string", "number"}
              => /\ revived.engineExc = NoExc
                 /\ isInstanceOf(revived.v, "Date")
         /\ plain.v.k = "number" => revived.v = DateV(plain.v.n)
         /\ \A t \in Instants : plain.v = Str(toISOString(t)) => revived.v = DateV(t)
         /\ revived.engineExc # NoExc
              => (plain.v.k \notin {"string", "number"} /\ ~isInstanceOf(plain.v, "Date"))

====
